---- MODULE Spec2Model ----
(***************************************************************************)
(* The scie-pants launcher (src/src/main.rs): how one invocation turns the *)
(* process environment and the project found on disk into the Process      *)
(* (executable, argument vector, environment overlay) it hands over to.    *)
(*                                                                         *)
(* Data representation                                                     *)
(*   Option<T>   None is <<>>, Some(v) is <<v>>.                           *)
(*   strings     (String, OsString, PathBuf) are sequences of chunks.  A   *)
(*               chunk is a TLA+ string: either a run of characters that   *)
(*               shell quoting leaves alone, or one single character that  *)
(*               matters to a conversion (a space, a quote, a byte that is *)
(*               not UTF-8).  The empty string is <<>>.                    *)
(*   env vectors sequences of <<name, value>> pairs, name a TLA+ string.   *)
(***************************************************************************)
EXTENDS Integers, Sequences, FiniteSets, TLC

\* How many times the launcher is invoked in one behaviour.
MaxInvocations == 2

VARIABLES
    environ,                    \* the process environment: name -> Option<OsString>
    fs,                         \* what the launcher finds on disk from its cwd
    invocation,                 \* number of the current invocation, from 1
    issued,                     \* the uuids Uuid::new_v4 handed out so far, in order
    pc,                         \* position inside main and get_pants_process
    pants_repo_location,        \* Option<PathBuf>: the checkout, in sources mode
    checkout,                   \* what is on disk at pants_repo_location
    outcome,                    \* how the last invocation of main ended
    build_root,                 \* Option<PathBuf>
    configured_pants_version,   \* Option<String>
    debugpy_version,            \* Option<String>
    delegate_bootstrap,         \* bool
    pants_version,              \* Option<String>
    scie,                       \* String
    scie_boot,                  \* ScieBoot
    env,                        \* Vec<(OsString, OsString)>
    result,                     \* Result<Process> of get_pants_process
    \* BuildRoot::find (src/src/build_root.rs)
    start_dir,                  \* how the search is started
    tree,                       \* the directories from the start up to the filesystem root
    cwd,                        \* the directory the loop is looking at: an index into tree
    find_result,                \* Result<BuildRoot> of BuildRoot::find
    \* PantsConfig::parse (src/src/config.rs)
    toml,                       \* <root>/pants.toml: whether it reads, and what it holds
    parsed,                     \* Result<PantsConfig> of PantsConfig::parse
    \* PantsBootstrap (src/src/pants_bootstrap.rs)
    subprocess,                 \* what the disk and the bash subprocess give load
    process_env,                \* the environment of the launcher process
    loaded,                     \* Result<Option<PantsBootstrap>> of PantsBootstrap::load
    boot_pc,                    \* "load", "export_env", "done", "panicked"
    \* Process::exec (src/src/main.rs)
    exec_process,               \* self: the Process that is executed
    cli_args,                   \* the argument vector the launcher was started with
    exec_env,                   \* the environment of the launcher process
    exec_pc,                    \* position inside exec
    c_exe,                      \* Option<CString>
    c_args,                     \* Vec<CString>
    applied,                    \* how many entries of self.env have been set
    exec_result,                \* how exec ended
    \* fetch_a_scie_project (src/package/src/utils/build.rs)
    target_dir,                 \* what <cache>/<tag> holds
    work_dir,                   \* what <cache>/<tag>.work holds
    lock_owner,                 \* Option: the build holding the lock on <tag>.lck
    build                       \* per build: position, whether it holds the lock, result

launcherVars == <<environ, fs, invocation, issued, pc, build_root, configured_pants_version,
                  debugpy_version, delegate_bootstrap, pants_version, scie, scie_boot, env,
                  result, pants_repo_location, checkout, outcome>>

findVars == <<start_dir, tree, cwd, find_result>>

configVars == <<toml, parsed>>

bootstrapVars == <<subprocess, process_env, loaded, boot_pc>>

execVars == <<exec_process, cli_args, exec_env, exec_pc, c_exe, c_args, applied, exec_result>>

fetchVars == <<target_dir, work_dir, lock_owner, build>>

vars == <<launcherVars, findVars, configVars, bootstrapVars, execVars, fetchVars>>

locals == <<build_root, configured_pants_version, debugpy_version, delegate_bootstrap,
            pants_version, scie, scie_boot, env>>

-----------------------------------------------------------------------------
(* Option and string helpers *)

None == <<>>
Some(v) == <<v>>
IsSome(o) == Len(o) > 0
IsNone(o) == Len(o) = 0
Unwrap(o) == o[1]

\* A string literal made of characters no conversion treats specially.
Str(s) == <<s>>
EmptyString == <<>>

\* A byte that is not valid UTF-8.
NonUtf8Chunk == "\\xff"

\* OsString::into_string / env::var succeed on valid UTF-8 only.
IsUtf8(v) == \A i \in 1..Len(v) : v[i] # NonUtf8Chunk

\* PathBuf::join
Join(path, name) ==
    IF path = <<>> THEN <<name>>
    ELSE IF path[Len(path)] = "/" THEN path \o <<name>>
    ELSE path \o <<"/", name>>

\* The characters bash quoting has to protect.
NeedsEscape(c) == c \in {" ", "'", NonUtf8Chunk}

EscapeChunk(c) ==
    IF c = "'" THEN "\\'"
    ELSE IF c = NonUtf8Chunk THEN "\\xFF"
    ELSE c

\* ScieBoot::quote: shell_quote::bash::escape, then String::from_utf8.  A value
\* made of safe characters only is returned as it is; anything else comes back
\* as one $'...' word with the special characters escaped.
Quote(value) ==
    IF value = EmptyString THEN <<"''">>
    ELSE IF \A i \in 1..Len(value) : ~NeedsEscape(value[i]) THEN value
    ELSE <<"$'">> \o [i \in 1..Len(value) |-> EscapeChunk(value[i])] \o <<"'">>

\* const SCIE_PANTS_VERSION: &str = env!("CARGO_PKG_VERSION")
SCIE_PANTS_VERSION == Str("CARGO_PKG_VERSION")

-----------------------------------------------------------------------------
(* Results *)

Pending == [status |-> "pending", error |-> "", exe |-> EmptyString, args |-> <<>>,
            env |-> <<>>]

Err(e) == [status |-> "err", error |-> e, exe |-> EmptyString, args |-> <<>>,
           env |-> <<>>]

\* struct Process { exe, args, env }
Process(exe, args, overlay) ==
    [status |-> "ok", error |-> "", exe |-> exe, args |-> args, env |-> overlay]

-----------------------------------------------------------------------------
(* The inputs of one invocation *)

EnvNames == {"PANTS_VERSION", "PANTS_SHA", "SCIE", "PANTS_DEBUG", "PANTS_BOOTSTRAP_TOOLS",
             "PANTS_BIN_NAME", "SCIE_ARGV0", "PANTS_SOURCE", "ENABLE_PANTSD", "PANTS_PANTSD",
             "PANTS_BOOTSTRAP_VERSION"}

\* The environments of an invocation that reaches get_pants_process: every
\* combination of the variables it reads.
BuilderEnvironments ==
    [PANTS_VERSION : {None, Some(EmptyString), Some(Str("2.0.0")),
                      Some(<<"2.0.0", NonUtf8Chunk>>)},
     PANTS_SHA : {None, Some(Str("8e381dbf"))},
     SCIE : {None, Some(Str("/opt/scie-pants")), Some(<<"/o", "'", "pt/scie-pants">>)},
     PANTS_DEBUG : {None, Some(EmptyString), Some(Str("1"))},
     PANTS_BOOTSTRAP_TOOLS : {None, Some(EmptyString), Some(Str("1"))},
     PANTS_BIN_NAME : {None, Some(Str("./pants"))},
     SCIE_ARGV0 : {None, Some(<<"/usr/bin", "/", "pants">>)},
     PANTS_SOURCE : {None},
     ENABLE_PANTSD : {None},
     PANTS_PANTSD : {None},
     PANTS_BOOTSTRAP_VERSION : {None}]

\* The environments in which main takes another branch (the version report,
\* sources mode by PANTS_SOURCE or by the invocation name): every combination
\* of the variables those branches read, over a few settings of the others.
EntryEnvironments ==
    {e \in [PANTS_VERSION : {None},
            PANTS_SHA : {None},
            SCIE : {Some(Str("/opt/scie-pants"))},
            PANTS_DEBUG : {None},
            PANTS_BOOTSTRAP_TOOLS : {None},
            PANTS_BIN_NAME : {None},
            SCIE_ARGV0 : {None, Some(<<"/usr/bin", "/", "pants">>),
                          Some(<<"/usr/bin", "/", "pants_from_sources">>),
                          Some(<<"pants_from_sources">>)},
            PANTS_SOURCE : {None, Some(EmptyString), Some(Str("/src/pants")),
                            Some(<<"/src/pants", NonUtf8Chunk>>)},
            ENABLE_PANTSD : {None, Some(Str("true"))},
            PANTS_PANTSD : {None, Some(Str("True"))},
            PANTS_BOOTSTRAP_VERSION : {None, Some(Str("report")), Some(Str("1.0"))}] :
        \/ e.PANTS_SOURCE # None
        \/ e.PANTS_BOOTSTRAP_VERSION # None
        \/ e.SCIE_ARGV0 \notin {None, Some(<<"/usr/bin", "/", "pants">>)}}

Environments == BuilderEnvironments \cup EntryEnvironments

Roots == {Str("/repo"), <<"/my", " ", "repo">>}

\* What PantsConfig's accessors return for a parsed pants.toml.
Configs ==
    [pants_version : {None, Some(Str("1.2.3"))},
     debugpy_version : {None, Some(Str("1.6.0"))},
     delegate_bootstrap : BOOLEAN]

NoConfig == [pants_version |-> None, debugpy_version |-> None, delegate_bootstrap |-> FALSE]

\* found_root is the outcome of BuildRoot::find(None) from the current
\* directory; pants_toml says whether <root>/pants.toml can be read and parsed;
\* bootstrap_is_file whether <root>/.pants.bootstrap is a regular file, and
\* bootstrap_exports the value that script, when sourced, exports as
\* PANTS_VERSION (None when it does not assign it).
FileSystems ==
    [found_root : {None}, pants_toml : {"absent"}, config : {NoConfig},
     bootstrap_is_file : {FALSE}, bootstrap_exports : {None}]
    \cup
    [found_root : {Some(r) : r \in Roots}, pants_toml : {"unreadable", "malformed"},
     config : {NoConfig}, bootstrap_is_file : {FALSE}, bootstrap_exports : {None}]
    \cup
    [found_root : {Some(r) : r \in Roots}, pants_toml : {"ok"}, config : Configs,
     bootstrap_is_file : {FALSE}, bootstrap_exports : {None}]
    \cup
    [found_root : {Some(r) : r \in Roots}, pants_toml : {"ok"}, config : Configs,
     bootstrap_is_file : {TRUE}, bootstrap_exports : {None, Some(Str("3.0.0"))}]

\* What reading <checkout>/src/python/pants/VERSION gives: an I/O error, or the
\* text of the file.
VersionFiles == {None, Some(<<" ", "2.25.0", "\n">>)}

\* What is on disk where sources mode looks for the checkout: whether
\* <checkout>/pants is a regular file, and what reading
\* <checkout>/src/python/pants/VERSION gives.
Checkouts == [runner_is_file : BOOLEAN, version_file : VersionFiles]

NoCheckout == [runner_is_file |-> FALSE, version_file |-> None]

\* How an invocation of main ends: the exit status of the launcher process
\* ("replaced" when execv handed the process over), the error main printed, and
\* how many times Process::exec was called.
Outcome(exit_status, error, execs) ==
    [exit_status |-> exit_status, error |-> error, execs |-> execs]

NoOutcome == Outcome("running", "", 0)

\* Uuid::new_v4(): a version 4 uuid is one that was not handed out before.
Uuids == 1..MaxInvocations
FreshUuids(used) == Uuids \ {used[i] : i \in 1..Len(used)}

-----------------------------------------------------------------------------
(* The functions of main.rs *)

\* env::var_os
VarOs(e, name) == e[name]

\* env::var with a missing SCIE read as the empty string.
VarOrDefault(e, name) ==
    IF IsSome(e[name]) /\ IsUtf8(Unwrap(e[name])) THEN [ok |-> TRUE, value |-> Unwrap(e[name])]
    ELSE [ok |-> name = "SCIE", value |-> EmptyString]

\* env::var: the variable has to be set and valid unicode.
Var(e, name) ==
    IF IsSome(e[name]) /\ IsUtf8(Unwrap(e[name])) THEN [ok |-> TRUE, value |-> Unwrap(e[name])]
    ELSE [ok |-> FALSE, value |-> EmptyString]

\* env_version without the check for the empty string.
EnvVersionKeepEmpty(e, env_var_name) ==
    IF IsNone(VarOs(e, env_var_name)) THEN [ok |-> TRUE, value |-> None]
    ELSE IF IsUtf8(Unwrap(VarOs(e, env_var_name)))
         THEN [ok |-> TRUE, value |-> Some(Unwrap(VarOs(e, env_var_name)))]
    ELSE [ok |-> FALSE, value |-> None]

\* fn env_version(env_var_name) -> Result<Option<String>>
EnvVersion(e, env_var_name) ==
    LET raw_version == IF IsSome(VarOs(e, env_var_name)) THEN Unwrap(VarOs(e, env_var_name))
                       ELSE EmptyString
    IN  IF Len(raw_version) = 0 THEN [ok |-> TRUE, value |-> None]
        ELSE IF IsUtf8(raw_version) THEN [ok |-> TRUE, value |-> Some(raw_version)]
        ELSE [ok |-> FALSE, value |-> None]

\* find_pants_installation taking a pants.toml that does not load for no
\* installation at all.
FindPantsInstallationLenient(f) ==
    IF IsSome(f.found_root) /\ f.pants_toml = "ok" THEN
        [error |-> "",
         installation |-> Some([build_root |-> Unwrap(f.found_root), config |-> f.config])]
    ELSE [error |-> "", installation |-> None]

\* fn find_pants_installation() -> Result<Option<PantsConfig>>
FindPantsInstallation(f) ==
    IF IsSome(f.found_root) THEN
        IF f.pants_toml = "unreadable" THEN [error |-> "ConfigReadError", installation |-> None]
        ELSE IF f.pants_toml = "malformed" THEN
            [error |-> "ConfigParseError", installation |-> None]
        ELSE [error |-> "",
              installation |-> Some([build_root |-> Unwrap(f.found_root), config |-> f.config])]
    ELSE [error |-> "", installation |-> None]

\* PantsVersion that only knows the override.
PantsVersionOverrideOnly(env_pants_version, configured) == env_pants_version

\* PantsVersion with the two sources taken in the wrong order.
PantsVersionConfigFirst(env_pants_version, configured) ==
    IF IsSome(configured) THEN configured
    ELSE env_pants_version

\* let pants_version = if let Some(env_version) = env_pants_version { .. } else { .. }
PantsVersion(env_pants_version, configured) ==
    IF IsSome(env_pants_version) THEN Some(Unwrap(env_pants_version))
    ELSE configured

\* The delegation test with the version condition inverted.
ShouldDelegateWhenPinned(delegate, version) == delegate /\ IsSome(version)

\* The delegation test without the version condition.
ShouldDelegateAlways(delegate, version) == delegate

\* The delegation test without the configuration's flag.
ShouldDelegateUnpinned(delegate, version) == IsNone(version)

\* if delegate_bootstrap && pants_version.is_none()
ShouldDelegate(delegate, version) == delegate /\ IsNone(version)

\* let pants_debug = matches!(env::var_os("PANTS_DEBUG"), Some(value) if !value.is_empty())
PantsDebug(e) == IsSome(VarOs(e, "PANTS_DEBUG")) /\ Len(Unwrap(VarOs(e, "PANTS_DEBUG"))) > 0

\* The boot mode with the debug flag tested first.
SelectScieBootDebugFirst(e) ==
    IF IsSome(VarOs(e, "PANTS_DEBUG")) /\ Len(Unwrap(VarOs(e, "PANTS_DEBUG"))) > 0 THEN "PantsDebug"
    ELSE IF IsSome(VarOs(e, "PANTS_BOOTSTRAP_TOOLS")) THEN "BootstrapTools"
    ELSE "Pants"

\* let scie_boot = match env::var_os("PANTS_BOOTSTRAP_TOOLS") { .. }
SelectScieBoot(e) ==
    IF IsSome(VarOs(e, "PANTS_BOOTSTRAP_TOOLS")) THEN "BootstrapTools"
    ELSE IF PantsDebug(e) THEN "PantsDebug"
    ELSE "Pants"

\* ScieBoot::env_value
EnvValue(boot) ==
    CASE boot = "BootstrapTools" -> Str("bootstrap-tools")
      [] boot = "Pants" -> Str("pants")
      [] boot = "PantsDebug" -> Str("pants-debug")

\* PantsBinName asking for the invocation name before the explicit override.
PantsBinNameArgv0First(e, scie_path) ==
    IF IsSome(VarOs(e, "SCIE_ARGV0")) THEN Unwrap(VarOs(e, "SCIE_ARGV0"))
    ELSE IF IsSome(VarOs(e, "PANTS_BIN_NAME")) THEN Unwrap(VarOs(e, "PANTS_BIN_NAME"))
    ELSE scie_path

\* let pants_bin_name = env::var_os("PANTS_BIN_NAME").or_else(..).unwrap_or_else(..)
PantsBinName(e, scie_path) ==
    IF IsSome(VarOs(e, "PANTS_BIN_NAME")) THEN Unwrap(VarOs(e, "PANTS_BIN_NAME"))
    ELSE IF IsSome(VarOs(e, "SCIE_ARGV0")) THEN Unwrap(VarOs(e, "SCIE_ARGV0"))
    ELSE scie_path

\* let mut env = vec![ .. ]
BaseEnv(e, boot, scie_path) ==
    << <<"SCIE_BOOT", EnvValue(boot)>>,
       <<"PANTS_BIN_NAME", PantsBinName(e, scie_path)>>,
       <<"PANTS_DEBUG", IF PantsDebug(e) THEN Str("1") ELSE EmptyString>>,
       <<"SCIE_PANTS_VERSION", SCIE_PANTS_VERSION>> >>

\* if let Some(debugpy_version) = debugpy_version { env.push(..) }
DebugpyEnv(debugpy) ==
    IF IsSome(debugpy) THEN << <<"PANTS_DEBUGPY_VERSION", Unwrap(debugpy)>> >> ELSE <<>>

\* if let Some(ref build_root) = build_root { env.push(..); if .. { env.push(..) } }
BuildRootEnv(root, configured) ==
    IF IsSome(root) THEN
        << <<"PANTS_BUILDROOT_OVERRIDE", Unwrap(root)>> >>
        \o (IF IsNone(configured) THEN << <<"PANTS_TOML", Join(Unwrap(root), "pants.toml")>> >>
            ELSE <<>>)
    ELSE <<>>

\* The version entries with a salt that is the same on every invocation.
VersionEnvFixedSalt(version, delegate, uuid) ==
    IF IsSome(version) THEN
        (IF delegate THEN << <<"_PANTS_VERSION_OVERRIDE", Unwrap(version)>> >> ELSE <<>>)
        \o << <<"PANTS_VERSION", Unwrap(version)>> >>
    ELSE << <<"PANTS_VERSION_PROMPT_SALT", Str("salt")>> >>

\* if let Some(version) = pants_version { .. } else { env.push(PANTS_VERSION_PROMPT_SALT) }
VersionEnv(version, delegate, uuid) ==
    IF IsSome(version) THEN
        (IF delegate THEN << <<"_PANTS_VERSION_OVERRIDE", Unwrap(version)>> >> ELSE <<>>)
        \o << <<"PANTS_VERSION", Unwrap(version)>> >>
    ELSE << <<"PANTS_VERSION_PROMPT_SALT", Str(ToString(uuid))>> >>

\* format!(r#"set -eou pipefail; source {bootstrap}; exec {scie} "$0" "$@""#, ..)
BashCommand(bootstrap, scie_path) ==
    <<"set -eou pipefail; source ">> \o Quote(bootstrap) \o <<"; exec ">> \o Quote(scie_path)
    \o <<" \"$0\" \"$@\"">>

\* into_process without the test for the BootstrapTools mode.
IntoProcessAnyMode(boot, scie_path, root, overlay, bootstrap_is_file) ==
    IF IsSome(root) /\ bootstrap_is_file THEN
        [status |-> "ok", error |-> "", exe |-> Str("/usr/bin/env"),
         args |-> <<Str("bash"), Str("-c"),
                    <<"set -eou pipefail; source ">>
                    \o Quote(Join(Unwrap(root), ".pants.bootstrap"))
                    \o <<"; exec ">> \o Quote(scie_path) \o <<" \"$0\" \"$@\"">> >>,
         env |-> overlay]
    ELSE [status |-> "ok", error |-> "", exe |-> scie_path, args |-> <<>>, env |-> overlay]

\* into_process wrapping in the Pants mode only.
IntoProcessPantsOnly(boot, scie_path, root, overlay, bootstrap_is_file) ==
    IF IsSome(root) /\ boot = "Pants" /\ bootstrap_is_file THEN
        [status |-> "ok", error |-> "", exe |-> Str("/usr/bin/env"),
         args |-> <<Str("bash"), Str("-c"),
                    <<"set -eou pipefail; source ">>
                    \o Quote(Join(Unwrap(root), ".pants.bootstrap"))
                    \o <<"; exec ">> \o Quote(scie_path) \o <<" \"$0\" \"$@\"">> >>,
         env |-> overlay]
    ELSE [status |-> "ok", error |-> "", exe |-> scie_path, args |-> <<>>, env |-> overlay]

\* fn ScieBoot::into_process(self, scie, build_root, env) -> Result<Process>
IntoProcess(boot, scie_path, root, overlay, bootstrap_is_file) ==
    IF IsSome(root) /\ boot # "BootstrapTools" /\ bootstrap_is_file THEN
        Process(Str("/usr/bin/env"),
                <<Str("bash"), Str("-c"),
                  BashCommand(Join(Unwrap(root), ".pants.bootstrap"), scie_path)>>,
                overlay)
    ELSE Process(scie_path, <<>>, overlay)

\* The env vector handed to into_process: the vec![..] and every push, in order.
Overlay(e, boot, scie_path, debugpy, root, configured, version, delegate, uuid) ==
    BaseEnv(e, boot, scie_path)
    \o DebugpyEnv(debugpy)
    \o BuildRootEnv(root, configured)
    \o VersionEnv(version, delegate, uuid)

\* let exe = build_root.expect("Failed to locate build root").join("pants"); return Ok(..)
DelegateProcess(root) ==
    IF IsSome(root) THEN Process(Join(Unwrap(root), "pants"), <<>>, <<>>)
    ELSE Err("panic: Failed to locate build root")

\* fn get_pants_process() -> Result<Process>, as a function of the environment,
\* the disk and the uuid it would draw.
GetPantsProcess(e, f, uuid) ==
    LET found == FindPantsInstallation(f) IN
    IF found.error # "" THEN Err(found.error)
    ELSE
        LET config == IF IsSome(found.installation) THEN Unwrap(found.installation).config
                      ELSE NoConfig
            root == IF IsSome(found.installation)
                    THEN Some(Unwrap(found.installation).build_root) ELSE None
            env_pants_version == EnvVersion(e, "PANTS_VERSION")
        IN  IF ~env_pants_version.ok THEN Err("NonUtf8EnvironmentValue")
            ELSE
                LET version == PantsVersion(env_pants_version.value, config.pants_version) IN
                IF ShouldDelegate(config.delegate_bootstrap, version) THEN DelegateProcess(root)
                ELSE
                    LET location == Var(e, "SCIE") IN
                    IF ~location.ok THEN Err("RuntimeLocationMissing")
                    ELSE IntoProcess(SelectScieBoot(e), location.value, root,
                                     Overlay(e, SelectScieBoot(e), location.value,
                                             config.debugpy_version, root,
                                             config.pants_version, version,
                                             config.delegate_bootstrap, uuid),
                                     f.bootstrap_is_file)

\* str::trim
Whitespace == {" ", "\n"}

RECURSIVE TrimStart(_)
TrimStart(text) ==
    IF text # <<>> /\ Head(text) \in Whitespace THEN TrimStart(Tail(text)) ELSE text

RECURSIVE TrimEnd(_)
TrimEnd(text) ==
    IF text # <<>> /\ text[Len(text)] \in Whitespace
    THEN TrimEnd(SubSeq(text, 1, Len(text) - 1)) ELSE text

Trim(text) == TrimEnd(TrimStart(text))

\* Path::file_name
FileName(path) == IF path = <<>> \/ path[Len(path)] \in {"/", ".."} THEN None
                  ELSE Some(path[Len(path)])

\* fn invoked_as_basename() -> Option<String>
InvokedAsBasename(e) ==
    IF Var(e, "SCIE_ARGV0").ok THEN FileName(Var(e, "SCIE_ARGV0").value) ELSE None

\* EnablePantsd asking for PANTS_PANTSD before ENABLE_PANTSD.
EnablePantsdPantsdFirst(e) ==
    IF IsSome(VarOs(e, "PANTS_PANTSD")) THEN Unwrap(VarOs(e, "PANTS_PANTSD"))
    ELSE IF IsSome(VarOs(e, "ENABLE_PANTSD")) THEN Unwrap(VarOs(e, "ENABLE_PANTSD"))
    ELSE Str("false")

\* let enable_pantsd = env::var_os("ENABLE_PANTSD").or_else(..).unwrap_or_else(..)
EnablePantsd(e) ==
    IF IsSome(VarOs(e, "ENABLE_PANTSD")) THEN Unwrap(VarOs(e, "ENABLE_PANTSD"))
    ELSE IF IsSome(VarOs(e, "PANTS_PANTSD")) THEN Unwrap(VarOs(e, "PANTS_PANTSD"))
    ELSE Str("false")

\* fn get_pants_from_sources_process(pants_repo_location) -> Result<Process>
GetPantsFromSourcesProcess(e, f, location, version_file) ==
    IF IsNone(version_file) THEN Err("VersionFileReadError")
    ELSE IF IsNone(f.found_root) THEN Err("RootNotFound")
    ELSE Process(Join(location, "pants"),
                 <<Str("--no-verify-config")>>,
                 << <<"PANTS_VERSION", Trim(Unwrap(version_file))>>,
                    <<"PANTS_PANTSD", EnablePantsd(e)>>,
                    <<"PANTS_BUILDROOT_OVERRIDE", Unwrap(f.found_root)>>,
                    <<"no_proxy", Str("*")>>,
                    <<"SCIE_PANTS_VERSION", SCIE_PANTS_VERSION>> >>)

\* EntryPoint looking at the invocation name before PANTS_SOURCE.
EntryPointAliasFirst(e) ==
    IF Var(e, "PANTS_BOOTSTRAP_VERSION").ok
       /\ Var(e, "PANTS_BOOTSTRAP_VERSION").value = Str("report")
    THEN [branch |-> "report", location |-> None]
    ELSE IF InvokedAsBasename(e) = Some("pants_from_sources")
    THEN [branch |-> "sources", location |-> Some(<<"..", "/", "pants">>)]
    ELSE IF Var(e, "PANTS_SOURCE").ok
    THEN [branch |-> "sources", location |-> Some(Var(e, "PANTS_SOURCE").value)]
    ELSE [branch |-> "normal", location |-> None]

\* The branch main takes: the version report, sources mode (with the checkout
\* it names) or the normal builder.
EntryPoint(e) ==
    IF Var(e, "PANTS_BOOTSTRAP_VERSION").ok
       /\ Var(e, "PANTS_BOOTSTRAP_VERSION").value = Str("report")
    THEN [branch |-> "report", location |-> None]
    ELSE IF Var(e, "PANTS_SOURCE").ok
    THEN [branch |-> "sources", location |-> Some(Var(e, "PANTS_SOURCE").value)]
    ELSE IF InvokedAsBasename(e) = Some("pants_from_sources")
    THEN [branch |-> "sources", location |-> Some(<<"..", "/", "pants">>)]
    ELSE [branch |-> "normal", location |-> None]

-----------------------------------------------------------------------------
(* One invocation of main and get_pants_process, statement by statement *)

\* The variables of the other specifications of this module, and their values
\* while the launcher specification runs.
elsewhere == <<findVars, configVars, bootstrapVars, execVars, fetchVars>>

FindIdle ==
    /\ start_dir = "idle"
    /\ tree = <<>>
    /\ cwd = 0
    /\ find_result = [status |-> "idle", root |-> 0, error |-> ""]

ConfigIdle ==
    /\ toml = <<>>
    /\ parsed = [status |-> "idle", error |-> "", pants_version |-> None, cache |-> None]

BootstrapIdle ==
    /\ subprocess = <<>>
    /\ process_env = {}
    /\ loaded = [status |-> "idle", error |-> "", output |-> <<>>, bootstrap |-> <<>>]
    /\ boot_pc = "idle"

ExecIdle ==
    /\ exec_process = <<>>
    /\ cli_args = <<>>
    /\ exec_env = {}
    /\ exec_pc = "idle"
    /\ c_exe = None
    /\ c_args = <<>>
    /\ applied = 0
    /\ exec_result = "idle"

FetchIdle ==
    /\ target_dir = [exists |-> FALSE, binary |-> "none", sha256 |-> "none"]
    /\ work_dir = [exists |-> FALSE, binary |-> "none", sha256 |-> "none"]
    /\ lock_owner = None
    /\ build = <<>>

InitLocals ==
    /\ build_root = None
    /\ configured_pants_version = None
    /\ debugpy_version = None
    /\ delegate_bootstrap = FALSE
    /\ pants_version = None
    /\ scie = EmptyString
    /\ scie_boot = "Pants"
    /\ env = <<>>

Init ==
    /\ environ \in Environments
    /\ fs \in FileSystems
    /\ invocation = 1
    /\ issued = <<>>
    /\ pc = "main"
    /\ pants_repo_location = None
    /\ checkout = NoCheckout
    /\ outcome = NoOutcome
    /\ InitLocals
    /\ result = Pending
    /\ FindIdle
    /\ ConfigIdle
    /\ BootstrapIdle
    /\ ExecIdle
    /\ FetchIdle

Fail(e) ==
    /\ result' = Err(e)
    /\ pc' = "done"

\* fn main: the version report, then the choice of the builder.
Main ==
    /\ pc = "main"
    /\ LET entry == EntryPoint(environ) IN
        /\ pants_repo_location' = entry.location
        /\ IF entry.branch = "report" THEN
                /\ result' = [Pending EXCEPT !.status = "reported"]
                /\ pc' = "done"
                /\ UNCHANGED checkout
           ELSE IF entry.branch = "sources" THEN
                /\ pc' = "sources"
                /\ checkout' \in Checkouts
                /\ UNCHANGED result
           ELSE
                /\ pc' = "find_pants_installation"
                /\ UNCHANGED <<result, checkout>>
    /\ UNCHANGED <<environ, fs, invocation, issued, locals, outcome, elsewhere>>

\* get_pants_from_sources_process(pants_repo_location)?
GetPantsFromSources ==
    /\ pc = "sources"
    /\ result' = GetPantsFromSourcesProcess(environ, fs, Unwrap(pants_repo_location),
                                            checkout.version_file)
    /\ pc' = "done"
    /\ UNCHANGED <<environ, fs, invocation, issued, locals, pants_repo_location, checkout,
                   outcome, elsewhere>>

\* let pants_installation = find_pants_installation()?; let (build_root, ..) = ..
FindInstallation ==
    /\ pc = "find_pants_installation"
    /\ LET found == FindPantsInstallation(fs) IN
        IF found.error # "" THEN
            /\ Fail(found.error)
            /\ UNCHANGED <<build_root, configured_pants_version, debugpy_version,
                           delegate_bootstrap>>
        ELSE
            /\ IF IsSome(found.installation) THEN
                    LET pants_config == Unwrap(found.installation) IN
                    /\ build_root' = Some(pants_config.build_root)
                    /\ configured_pants_version' = pants_config.config.pants_version
                    /\ debugpy_version' = pants_config.config.debugpy_version
                    /\ delegate_bootstrap' = pants_config.config.delegate_bootstrap
               ELSE
                    /\ build_root' = None
                    /\ configured_pants_version' = None
                    /\ debugpy_version' = None
                    /\ delegate_bootstrap' = FALSE
            /\ pc' = "env_version"
            /\ UNCHANGED result
    /\ UNCHANGED <<environ, fs, invocation, issued, pants_version, scie, scie_boot, env>>
    /\ UNCHANGED <<pants_repo_location, checkout, outcome, elsewhere>>

\* let env_pants_version = env_version("PANTS_VERSION")?; let pants_version = ..
ResolveVersion ==
    /\ pc = "env_version"
    /\ LET env_pants_version == EnvVersion(environ, "PANTS_VERSION") IN
        IF ~env_pants_version.ok THEN
            /\ Fail("NonUtf8EnvironmentValue")
            /\ UNCHANGED pants_version
        ELSE
            /\ pants_version' = PantsVersion(env_pants_version.value, configured_pants_version)
            /\ pc' = "delegate"
            /\ UNCHANGED result
    /\ UNCHANGED <<environ, fs, invocation, issued, build_root, configured_pants_version,
                   debugpy_version, delegate_bootstrap, scie, scie_boot, env>>
    /\ UNCHANGED <<pants_repo_location, checkout, outcome, elsewhere>>

\* if delegate_bootstrap && pants_version.is_none() { return Ok(Process { exe, ..default }) }
Delegate ==
    /\ pc = "delegate"
    /\ IF ShouldDelegate(delegate_bootstrap, pants_version) THEN
            /\ result' = DelegateProcess(build_root)
            /\ pc' = "done"
       ELSE
            /\ pc' = "scie"
            /\ UNCHANGED result
    /\ UNCHANGED <<environ, fs, invocation, issued, locals>>
    /\ UNCHANGED <<pants_repo_location, checkout, outcome, elsewhere>>

\* let scie = env::var("SCIE").context(..)?
ReadScie ==
    /\ pc = "scie"
    /\ LET found == Var(environ, "SCIE") IN
        IF found.ok THEN
            /\ scie' = found.value
            /\ pc' = "scie_boot"
            /\ UNCHANGED result
        ELSE
            /\ Fail("RuntimeLocationMissing")
            /\ UNCHANGED scie
    /\ UNCHANGED <<environ, fs, invocation, issued, build_root, configured_pants_version,
                   debugpy_version, delegate_bootstrap, pants_version, scie_boot, env>>
    /\ UNCHANGED <<pants_repo_location, checkout, outcome, elsewhere>>

\* let scie_boot = ..; let mut env = vec![..]; the pushes onto env
BuildEnv ==
    /\ pc = "scie_boot"
    /\ scie_boot' = SelectScieBoot(environ)
    /\ \E uuid \in FreshUuids(issued) :
        /\ env' = Overlay(environ, SelectScieBoot(environ), scie, debugpy_version, build_root,
                          configured_pants_version, pants_version, delegate_bootstrap, uuid)
        /\ issued' = IF IsNone(pants_version) THEN Append(issued, uuid) ELSE issued
    /\ pc' = "into_process"
    /\ UNCHANGED <<environ, fs, invocation, build_root, configured_pants_version,
                   debugpy_version, delegate_bootstrap, pants_version, scie, result>>
    /\ UNCHANGED <<pants_repo_location, checkout, outcome, elsewhere>>

\* scie_boot.into_process(scie, build_root, env)
IntoProcessStep ==
    /\ pc = "into_process"
    /\ result' = IntoProcess(scie_boot, scie, build_root, env, fs.bootstrap_is_file)
    /\ pc' = "done"
    /\ UNCHANGED <<environ, fs, invocation, issued, locals>>
    /\ UNCHANGED <<pants_repo_location, checkout, outcome, elsewhere>>

\* The end of main: an Err from the builder is returned by the ? before exec is
\* reached, and the process exits with status 1 after printing the error; an
\* Ok(process) is exec-ed, once, which either replaces the launcher process or
\* returns an Err that main returns in turn.  The launcher is a one-shot
\* process: when it ends, nothing of it is kept but how it ended.
\* The end of main calling exec whatever the builder returned.
MainTailExecAnyway(res) ==
    IF res.status = "reported" THEN {Outcome("0", "", 0)}
    ELSE {Outcome("replaced", "", 1), Outcome("1", "ExecError", 1)}

MainTail(res) ==
    IF res.status = "reported" THEN {Outcome("0", "", 0)}
    ELSE IF res.status = "err" THEN
        {Outcome(IF res.error = "panic: Failed to locate build root" THEN "101" ELSE "1",
                 res.error, 0)}
    ELSE {Outcome("replaced", "", 1), Outcome("1", "ExecError", 1)}

Exit ==
    /\ pc = "done"
    /\ pc' = "exited"
    /\ outcome' \in MainTail(result)
    /\ checkout' = NoCheckout
    /\ environ' = [n \in EnvNames |-> None]
    /\ fs' = [found_root |-> None, pants_toml |-> "absent", config |-> NoConfig,
              bootstrap_is_file |-> FALSE, bootstrap_exports |-> None]
    /\ build_root' = None
    /\ configured_pants_version' = None
    /\ debugpy_version' = None
    /\ delegate_bootstrap' = FALSE
    /\ pants_version' = None
    /\ scie' = EmptyString
    /\ scie_boot' = "Pants"
    /\ env' = <<>>
    /\ result' = Pending
    /\ pants_repo_location' = None
    /\ UNCHANGED <<invocation, issued, elsewhere>>

\* The next invocation starts from scratch, in whatever environment and
\* directory it is started in.
Launch ==
    /\ pc = "exited"
    /\ invocation < MaxInvocations
    /\ invocation' = invocation + 1
    /\ environ' \in Environments
    /\ fs' \in FileSystems
    /\ pc' = "main"
    /\ outcome' = NoOutcome
    /\ UNCHANGED <<issued, locals, result, pants_repo_location, checkout, elsewhere>>

Next ==
    \/ Main
    \/ GetPantsFromSources
    \/ FindInstallation
    \/ ResolveVersion
    \/ Delegate
    \/ ReadScie
    \/ BuildEnv
    \/ IntoProcessStep
    \/ Exit
    \/ Launch

Spec == Init /\ [][Next]_vars

-----------------------------------------------------------------------------
(* BuildRoot::find (src/src/build_root.rs): the walk from a directory up to   *)
(* the filesystem root.  tree[1] is the directory the search starts in,       *)
(* tree[Len(tree)] the filesystem root, tree[i + 1] the parent of tree[i].    *)
(* A directory is given by what each marker name is in it: absent, a regular  *)
(* file, or something that is no regular file (a directory).                  *)

\* How many directories lie between the start directory and the filesystem root.
MaxDepth == 2

\* The longest variable dump (in lines) the bash subprocess prints.
MaxLines == 2

\* for marker_file_name in ["pants.toml", "BUILDROOT", "BUILD_ROOT"]
MarkerFileNames == <<"pants.toml", "BUILDROOT", "BUILD_ROOT">>

Trees == UNION {[1..n -> [{MarkerFileNames[k] : k \in 1..3} -> {"absent", "file", "dir"}]] :
                    n \in 1..(MaxDepth + 1)}

\* The launcher is idle while this specification runs.
LauncherIdle ==
    /\ environ = [n \in EnvNames |-> None]
    /\ fs = [found_root |-> None, pants_toml |-> "absent", config |-> NoConfig,
             bootstrap_is_file |-> FALSE, bootstrap_exports |-> None]
    /\ invocation = 0
    /\ issued = <<>>
    /\ pc = "idle"
    /\ pants_repo_location = None
    /\ checkout = NoCheckout
    /\ outcome = NoOutcome
    /\ InitLocals
    /\ result = Pending

\* Path::is_file with any of the marker names, the test of the for loop taken
\* as a whole, and the same test with exists() in the place of is_file().
HasMarkerExists(dir) == \E k \in 1..Len(MarkerFileNames) : dir[MarkerFileNames[k]] # "absent"

HasMarker(dir) == \E k \in 1..Len(MarkerFileNames) : dir[MarkerFileNames[k]] = "file"

\* Path::parent: None at the filesystem root.
Parent(t, dir) == IF dir < Len(t) THEN Some(dir + 1) ELSE None

FindInit ==
    /\ LauncherIdle
    /\ ConfigIdle
    /\ BootstrapIdle
    /\ ExecIdle
    /\ FetchIdle
    /\ \/ start_dir = "current_dir" /\ tree \in Trees
       \/ start_dir = "current_dir_error" /\ tree = <<>>
    /\ cwd = 0
    /\ find_result = [status |-> "pending", root |-> 0, error |-> ""]

\* let start_search = if let Some(cwd) = start_dir { cwd } else { current_dir()? }
\* The launcher calls BuildRoot::find(None) only, so the search starts in the
\* current directory, an absolute path.
FindStart ==
    /\ find_result.status = "pending"
    /\ IF start_dir = "current_dir_error" THEN
            /\ find_result' = [status |-> "err", root |-> 0, error |-> "CurrentDirError"]
            /\ UNCHANGED cwd
       ELSE
            /\ find_result' = [find_result EXCEPT !.status = "searching"]
            /\ cwd' = 1
    /\ UNCHANGED <<start_dir, tree, launcherVars, configVars, bootstrapVars, execVars, fetchVars>>

\* One turn of the loop: the three is_file tests, then cwd = cwd.parent()?
FindLoop ==
    /\ find_result.status = "searching"
    /\ IF HasMarker(tree[cwd]) THEN
            /\ find_result' = [status |-> "ok", root |-> cwd, error |-> ""]
            /\ UNCHANGED cwd
       ELSE IF IsSome(Parent(tree, cwd)) THEN
            /\ cwd' = Unwrap(Parent(tree, cwd))
            /\ UNCHANGED find_result
       ELSE
            /\ find_result' = [status |-> "err", root |-> 0, error |-> "RootNotFound"]
            /\ UNCHANGED cwd
    /\ UNCHANGED <<start_dir, tree, launcherVars, configVars, bootstrapVars, execVars, fetchVars>>

FindNext == FindStart \/ FindLoop

\* The function runs to its return: nothing suspends it.
FindSpec == FindInit /\ [][FindNext]_vars /\ WF_vars(FindNext)

-----------------------------------------------------------------------------
(* PantsConfig::parse (src/src/config.rs): <root>/pants.toml read and         *)
(* deserialized into Config { GLOBAL: Global { pants_version: String },        *)
(* setup: Setup { cache: Option<PathBuf> } }.  A document is given by what     *)
(* matters to the deserializer: whether the file reads, whether it is TOML,    *)
(* and what it holds under the keys of the two structs; any other key or       *)
(* table ([DEFAULT], [debugpy], ...) is ignored by serde.                      *)

TomlDocuments ==
    [read : {"ok", "io_error"},
     syntax : {"ok", "malformed"},
     GLOBAL : {"absent", "scalar", "table"},
     pants_version : {"absent", "integer", "2.18.0", "1.2.3"},
     setup : {"absent", "scalar", "table"},
     cache : {"absent", "integer", "/cache"},
     delegate_bootstrap : {"absent", "true", "false"}]

\* #[derive(Deserialize)] struct Global { pub pants_version: String }
DeserializeGlobal(doc) ==
    IF doc.GLOBAL # "table" THEN [ok |-> FALSE, pants_version |-> None]
    ELSE IF doc.pants_version \in {"absent", "integer"} THEN [ok |-> FALSE, pants_version |-> None]
    ELSE [ok |-> TRUE, pants_version |-> Some(Str(doc.pants_version))]

\* #[derive(Default, Deserialize)] struct Setup { cache: Option<PathBuf> }
DeserializeSetup(doc) ==
    IF doc.setup = "absent" THEN [ok |-> TRUE, cache |-> None]
    ELSE IF doc.setup # "table" THEN [ok |-> FALSE, cache |-> None]
    ELSE IF doc.cache = "absent" THEN [ok |-> TRUE, cache |-> None]
    ELSE IF doc.cache = "integer" THEN [ok |-> FALSE, cache |-> None]
    ELSE [ok |-> TRUE, cache |-> Some(Str(doc.cache))]

\* #[derive(Deserialize)] struct Config { #[serde(rename = "GLOBAL")] global: Global,
\*                                        #[serde(default)] setup: Setup }
DeserializeConfig(doc) ==
    [ok |-> doc.syntax = "ok" /\ DeserializeGlobal(doc).ok /\ DeserializeSetup(doc).ok,
     pants_version |-> DeserializeGlobal(doc).pants_version,
     cache |-> DeserializeSetup(doc).cache]

\* fn PantsConfig::parse(build_root) -> Result<PantsConfig>
PantsConfigParse(doc) ==
    IF doc.read # "ok" THEN
        [status |-> "err", error |-> "ConfigReadError", pants_version |-> None, cache |-> None]
    ELSE IF ~DeserializeConfig(doc).ok THEN
        [status |-> "err", error |-> "ConfigParseError", pants_version |-> None, cache |-> None]
    ELSE [status |-> "ok", error |-> "", pants_version |-> DeserializeConfig(doc).pants_version,
          cache |-> DeserializeConfig(doc).cache]

ConfigInit ==
    /\ LauncherIdle
    /\ FindIdle
    /\ BootstrapIdle
    /\ ExecIdle
    /\ FetchIdle
    /\ toml \in TomlDocuments
    /\ parsed = [status |-> "pending", error |-> "", pants_version |-> None, cache |-> None]

ConfigParse ==
    /\ parsed.status = "pending"
    /\ parsed' = PantsConfigParse(toml)
    /\ UNCHANGED <<toml, launcherVars, findVars, bootstrapVars, execVars, fetchVars>>

ConfigNext == ConfigParse

ConfigSpec == ConfigInit /\ [][ConfigNext]_vars

-----------------------------------------------------------------------------
(* PantsBootstrap (src/src/pants_bootstrap.rs): load runs bash once, which    *)
(* prints its variables to stderr, sources <root>/.pants.bootstrap with the    *)
(* script's own output sent to a capture file, and prints its variables again  *)
(* to stdout; the entries of the second dump that are new or changed are the   *)
(* bootstrap environment, which export_env sets in the launcher process.       *)
(* A dump is a sequence of lines and a line a sequence of chunks, "=" being a  *)
(* chunk of its own.                                                           *)

Line(name, value) == <<name, "=">> \o value

\* The lines of the dump taken before the script is sourced.  The names load
\* elides are left out of it: load never looks them up.
BeforeLines ==
    {Line("FOO", Str("a")), Line("FOO", Str("b")), Line("BAR", Str("a")),
     Line("FOO", <<"a", "=", "b">>), <<"declare -x">>}

\* The lines of the dump taken after it; the last one has an empty name.
AfterLines ==
    BeforeLines \cup {Line("_", Str("a")), Line("PIPESTATUS", Str("a")),
                      Line("BASH_ARGC", Str("a")), <<"=", "a">>}

SeqsUpTo(S, n) == UNION {[1..k -> S] : k \in 0..n}

\* A dump that is not valid UTF-8.
NonUtf8Dump == << Line("BAR", <<NonUtf8Chunk>>) >>

BeforeDumps == SeqsUpTo(BeforeLines, MaxLines) \cup {NonUtf8Dump}
AfterDumps == SeqsUpTo(AfterLines, MaxLines) \cup {NonUtf8Dump}

\* What the script wrote to the capture file.
Captures == {EmptyString, Str("boom"), <<"boom", NonUtf8Chunk>>}

\* The outcomes of one call of load: no script; no temporary file; bash does
\* not start; bash exits non-zero; bash exits zero with its two dumps.
Subprocesses ==
    {[is_file |-> FALSE, tempfile_ok |-> TRUE, spawn_ok |-> TRUE, success |-> TRUE,
      capture |-> EmptyString, stderr |-> <<>>, stdout |-> <<>>],
     [is_file |-> TRUE, tempfile_ok |-> FALSE, spawn_ok |-> TRUE, success |-> TRUE,
      capture |-> EmptyString, stderr |-> <<>>, stdout |-> <<>>],
     [is_file |-> TRUE, tempfile_ok |-> TRUE, spawn_ok |-> FALSE, success |-> TRUE,
      capture |-> EmptyString, stderr |-> <<>>, stdout |-> <<>>]}
    \cup
    [is_file : {TRUE}, tempfile_ok : {TRUE}, spawn_ok : {TRUE}, success : {FALSE},
     capture : Captures, stderr : {<<>>, <<Line("FOO", Str("a"))>>}, stdout : {<<>>}]
    \cup
    [is_file : {TRUE}, tempfile_ok : {TRUE}, spawn_ok : {TRUE}, success : {TRUE},
     capture : {EmptyString}, stderr : BeforeDumps, stdout : AfterDumps]

\* The environment of the launcher process, as (name, value) pairs.
ProcessEnvs ==
    {{},
     {<<Str("FOO"), Str("a")>>},
     {<<Str("FOO"), Str("b")>>, <<Str("BAR"), Str("a")>>}}

\* HashMap::insert, env::set_var
Insert(m, key, value) == {p \in m : p[1] # key} \cup {<<key, value>>}

\* A lookup that never finds the key.
GetMissing(m, key) == None

\* HashMap::get, env::var_os
Get(m, key) ==
    IF \E p \in m : p[1] = key THEN Some((CHOOSE p \in m : p[1] = key)[2]) ELSE None

\* line.splitn(2, '=').collect::<Vec<_>>()[..]: [key, value], or no match.
SplitN2(line) ==
    LET eq == {i \in 1..Len(line) : line[i] = "="} IN
    IF eq = {} THEN None
    ELSE LET first == CHOOSE i \in eq : \A j \in eq : i <= j IN
         Some(<<SubSeq(line, 1, first - 1), SubSeq(line, first + 1, Len(line))>>)

\* String::from_utf8 of a whole dump
IsUtf8Dump(dump) == \A i \in 1..Len(dump) : IsUtf8(dump[i])

\* for line in original_vars.lines() { .. original.insert(key, value) .. }
RECURSIVE OriginalVars(_)
OriginalVars(lines) ==
    IF lines = <<>> THEN {}
    ELSE LET original == OriginalVars(SubSeq(lines, 1, Len(lines) - 1))
             entry == SplitN2(lines[Len(lines)])
         IN IF IsSome(entry) THEN Insert(original, Unwrap(entry)[1], Unwrap(entry)[2])
            ELSE original

ElidedKeys == {Str("BASH_ARGC"), Str("PIPESTATUS"), Str("_")}

\* The loop over new_vars.lines() putting each new entry in front.
RECURSIVE NewVarsNewestFirst(_, _)
NewVarsNewestFirst(original, lines) ==
    IF lines = <<>> THEN <<>>
    ELSE LET env_so_far == NewVarsNewestFirst(original, SubSeq(lines, 1, Len(lines) - 1))
             entry == SplitN2(lines[Len(lines)])
         IN IF IsNone(entry) THEN env_so_far
            ELSE IF Unwrap(entry)[1] \in {Str("BASH_ARGC"), Str("PIPESTATUS"), Str("_")}
            THEN env_so_far
            ELSE IF Get(original, Unwrap(entry)[1]) = Some(Unwrap(entry)[2]) THEN env_so_far
            ELSE <<Unwrap(entry)>> \o env_so_far

\* for line in new_vars.lines() { .. env.push((key_os, new_value_os)) .. }
RECURSIVE NewVars(_, _)
NewVars(original, lines) ==
    IF lines = <<>> THEN <<>>
    ELSE LET env_so_far == NewVars(original, SubSeq(lines, 1, Len(lines) - 1))
             entry == SplitN2(lines[Len(lines)])
         IN IF IsNone(entry) THEN env_so_far
            ELSE IF Unwrap(entry)[1] \in ElidedKeys THEN env_so_far
            ELSE IF Get(original, Unwrap(entry)[1]) = Some(Unwrap(entry)[2]) THEN env_so_far
            ELSE Append(env_so_far, Unwrap(entry))

LoadResult(status, error, output, bootstrap) ==
    [status |-> status, error |-> error, output |-> output, bootstrap |-> bootstrap]

\* load going on to read the dumps whatever the exit status of bash.
LoadIgnoringStatus(sub) ==
    IF ~sub.is_file THEN LoadResult("ok", "", <<>>, None)
    ELSE IF ~sub.tempfile_ok THEN LoadResult("err", "TempFileError", <<>>, None)
    ELSE IF ~sub.spawn_ok THEN LoadResult("err", "SpawnError", <<>>, None)
    ELSE IF ~IsUtf8Dump(sub.stderr) THEN LoadResult("err", "BaselineDecodeError", <<>>, None)
    ELSE IF ~IsUtf8Dump(sub.stdout) THEN
        LoadResult("err", "ModificationsDecodeError", <<>>, None)
    ELSE LoadResult("ok", "", <<>>, Some(NewVars(OriginalVars(sub.stderr), sub.stdout)))

\* fn PantsBootstrap::load(build_root) -> Result<Option<Self>>
Load(sub) ==
    IF ~sub.is_file THEN LoadResult("ok", "", <<>>, None)
    ELSE IF ~sub.tempfile_ok THEN LoadResult("err", "TempFileError", <<>>, None)
    ELSE IF ~sub.spawn_ok THEN LoadResult("err", "SpawnError", <<>>, None)
    ELSE IF ~sub.success THEN
        (IF IsUtf8(sub.capture)
         THEN LoadResult("err", "BootstrapScriptFailure", sub.capture, None)
         ELSE LoadResult("err", "CaptureReadError", <<>>, None))
    ELSE IF ~IsUtf8Dump(sub.stderr) THEN LoadResult("err", "BaselineDecodeError", <<>>, None)
    ELSE IF ~IsUtf8Dump(sub.stdout) THEN
        LoadResult("err", "ModificationsDecodeError", <<>>, None)
    ELSE LoadResult("ok", "", <<>>, Some(NewVars(OriginalVars(sub.stderr), sub.stdout)))

\* env::set_var panics when the name is empty (or holds "=" or NUL, which no
\* name split off at the first "=" of a line of text does).
SetVarPanics(key) == key = EmptyString

\* export_env that leaves a variable that is already set alone.
RECURSIVE ExportEnvKeepExisting(_, _)
ExportEnvKeepExisting(environment, entries) ==
    IF entries = <<>> THEN [env |-> environment, panicked |-> FALSE]
    ELSE LET exported == ExportEnvKeepExisting(environment,
                                               SubSeq(entries, 1, Len(entries) - 1))
             key == entries[Len(entries)][1]
             value == entries[Len(entries)][2]
         IN IF exported.panicked THEN exported
            ELSE IF IsSome(Get(exported.env, key)) THEN exported
            ELSE IF SetVarPanics(key) THEN [exported EXCEPT !.panicked = TRUE]
            ELSE [exported EXCEPT !.env = Insert(exported.env, key, value)]

\* fn PantsBootstrap::export_env(&self): the environment it leaves, and whether
\* a set_var panicked on the way.
RECURSIVE ExportEnv(_, _)
ExportEnv(environment, entries) ==
    IF entries = <<>> THEN [env |-> environment, panicked |-> FALSE]
    ELSE LET exported == ExportEnv(environment, SubSeq(entries, 1, Len(entries) - 1))
             key == entries[Len(entries)][1]
             value == entries[Len(entries)][2]
         IN IF exported.panicked THEN exported
            ELSE IF IsSome(Get(exported.env, key))
            THEN (IF value # Unwrap(Get(exported.env, key))
                  THEN [exported EXCEPT !.env = Insert(exported.env, key, value)]
                  ELSE exported)
            ELSE IF SetVarPanics(key) THEN [exported EXCEPT !.panicked = TRUE]
            ELSE [exported EXCEPT !.env = Insert(exported.env, key, value)]

BootstrapInit ==
    /\ LauncherIdle
    /\ FindIdle
    /\ ConfigIdle
    /\ ExecIdle
    /\ FetchIdle
    /\ subprocess \in Subprocesses
    /\ process_env \in ProcessEnvs
    /\ loaded = LoadResult("pending", "", <<>>, None)
    /\ boot_pc = "load"

\* PantsBootstrap::load(&build_root)
BootstrapLoad ==
    /\ boot_pc = "load"
    /\ loaded' = Load(subprocess)
    /\ boot_pc' = IF loaded'.status = "ok" /\ IsSome(loaded'.bootstrap) THEN "export_env"
                   ELSE "done"
    /\ UNCHANGED <<subprocess, process_env, launcherVars, findVars, configVars, execVars, fetchVars>>

\* export_env(&self): only load makes a PantsBootstrap, so export_env can only
\* run on what a successful load returned.
BootstrapExportEnv ==
    /\ boot_pc = "export_env"
    /\ process_env' = ExportEnv(process_env, Unwrap(loaded.bootstrap)).env
    /\ boot_pc' = IF ExportEnv(process_env, Unwrap(loaded.bootstrap)).panicked THEN "panicked"
                   ELSE "done"
    /\ UNCHANGED <<subprocess, loaded, launcherVars, findVars, configVars, execVars, fetchVars>>

BootstrapNext == BootstrapLoad \/ BootstrapExportEnv

BootstrapSpec == BootstrapInit /\ [][BootstrapNext]_vars

-----------------------------------------------------------------------------
(* Process::exec on unix (src/src/main.rs): the executable and the arguments  *)
(* are made C strings, the entries of self.env are set in the environment of   *)
(* the launcher process, and execv puts the program in the place of the        *)
(* launcher.  A string is a sequence of chunks, a NUL byte being a chunk of    *)
(* its own.                                                                    *)

MaxArgs == 2
MaxOverlay == 2

NulChunk == "\\0"

HasNul(v) == \E i \in 1..Len(v) : v[i] = NulChunk

\* self.exe, self.args and self.env: any OsString the type admits.
ExecExes == {Str("/pants"), <<"/pa", NulChunk, "nts">>}
ExecArgValues == {Str("-x"), <<"-", NulChunk>>}
OverlayPairs == {<<Str("A"), Str("a")>>, <<Str("A"), Str("b")>>, <<Str("B"), <<NulChunk>>>>}

ExecProcesses ==
    {Process(exe, args, overlay) : exe \in ExecExes, args \in SeqsUpTo(ExecArgValues, MaxArgs),
                                   overlay \in SeqsUpTo(OverlayPairs, MaxOverlay)}

\* The argument vector the launcher was started with: the operating system
\* hands over C strings, so no argument holds a NUL byte, but it need not be
\* Unicode.
CliArgValues == {Str("-V"), <<NonUtf8Chunk>>}
CliArgVectors == {<<Str("scie-pants")>> \o rest : rest \in SeqsUpTo(CliArgValues, MaxArgs)}

ExecEnvs == {{}, {<<Str("A"), Str("c")>>}}

\* CString::new that takes the bytes as they are.
CStringNewUnchecked(bytes) == Some(bytes)

\* CString::new(bytes): an error when a NUL byte is among the bytes.
CStringNew(bytes) == IF HasNul(bytes) THEN None ELSE Some(bytes)

\* The launcher's arguments put in front of the descriptor's.
ArgsChainCliFirst(args, cli) == Tail(cli) \o args

\* self.args.into_iter().chain(env::args().skip(1).map(OsString::from))
ArgsChain(args, cli) == args \o Tail(cli)

\* .map(|arg| CString::new(arg.into_vec())).collect::<Result<Vec<_>, _>>(): the
\* chain is walked from the front and stops at the first item that fails.  An
\* item of env::args() that is not Unicode makes its next() panic.
CollectCArgs(args, cli) ==
    LET chain == ArgsChain(args, cli)
        panics(i) == i > Len(args) /\ ~IsUtf8(chain[i])
        fails(i) == panics(i) \/ IsNone(CStringNew(chain[i]))
        stop == {i \in 1..Len(chain) : fails(i)}
        first == CHOOSE i \in stop : \A j \in stop : i <= j
    IN IF stop = {} THEN [status |-> "ok",
                          c_args |-> [i \in 1..Len(chain) |-> Unwrap(CStringNew(chain[i]))]]
       ELSE IF panics(first) THEN [status |-> "panic", c_args |-> <<>>]
       ELSE [status |-> "err", c_args |-> <<>>]

\* env::set_var panics on an empty name, a name with "=" or NUL, and a value
\* with NUL.
ExecSetVarPanics(name, value) ==
    \/ name = EmptyString
    \/ \E i \in 1..Len(name) : name[i] = "="
    \/ HasNul(name)
    \/ HasNul(value)

ExecInit ==
    /\ LauncherIdle
    /\ FindIdle
    /\ ConfigIdle
    /\ BootstrapIdle
    /\ FetchIdle
    /\ exec_process \in ExecProcesses
    /\ cli_args \in CliArgVectors
    /\ exec_env \in ExecEnvs
    /\ exec_pc = "c_exe"
    /\ c_exe = None
    /\ c_args = <<>>
    /\ applied = 0
    /\ exec_result = "pending"

\* let c_exe = CString::new(self.exe.into_vec()).context(..)?
ExecCExe ==
    /\ exec_pc = "c_exe"
    /\ c_exe' = CStringNew(exec_process.exe)
    /\ IF IsNone(c_exe') THEN
            /\ exec_pc' = "done"
            /\ exec_result' = "Failed to convert executable to a C string."
       ELSE
            /\ exec_pc' = "c_args"
            /\ UNCHANGED exec_result
    /\ UNCHANGED <<exec_process, cli_args, exec_env, c_args, applied>>
    /\ UNCHANGED <<launcherVars, findVars, configVars, bootstrapVars, fetchVars>>

\* let mut c_args = vec![c_exe.clone()]; c_args.extend(..collect()?)
ExecCArgs ==
    /\ exec_pc = "c_args"
    /\ LET collected == CollectCArgs(exec_process.args, cli_args) IN
       IF collected.status = "ok" THEN
            /\ c_args' = <<Unwrap(c_exe)>> \o collected.c_args
            /\ exec_pc' = "set_var"
            /\ UNCHANGED exec_result
       ELSE
            /\ exec_pc' = "done"
            /\ exec_result' = IF collected.status = "panic" THEN "panic: env::args"
                              ELSE "Failed to convert argument to a C string."
            /\ UNCHANGED c_args
    /\ UNCHANGED <<exec_process, cli_args, exec_env, c_exe, applied>>
    /\ UNCHANGED <<launcherVars, findVars, configVars, bootstrapVars, fetchVars>>

\* One turn of for (name, value) in self.env { env::set_var(name, value); }
ExecSetVar ==
    /\ exec_pc = "set_var"
    /\ applied < Len(exec_process.env)
    /\ LET name == exec_process.env[applied + 1][1]
           value == exec_process.env[applied + 1][2]
       IN IF ExecSetVarPanics(name, value) THEN
               /\ exec_pc' = "done"
               /\ exec_result' = "panic: env::set_var"
               /\ UNCHANGED <<exec_env, applied>>
          ELSE
               /\ exec_env' = Insert(exec_env, name, value)
               /\ applied' = applied + 1
               /\ UNCHANGED <<exec_pc, exec_result>>
    /\ UNCHANGED <<exec_process, cli_args, c_exe, c_args>>
    /\ UNCHANGED <<launcherVars, findVars, configVars, bootstrapVars, fetchVars>>

\* execv(&c_exe, &c_args).map(|_| 0).context("Failed to exec process."): the
\* program takes the place of the launcher, or execv returns its error.
ExecExecv ==
    /\ exec_pc = "set_var"
    /\ applied = Len(exec_process.env)
    /\ exec_pc' = "done"
    /\ exec_result' \in {"replaced", "Failed to exec process."}
    /\ UNCHANGED <<exec_process, cli_args, exec_env, c_exe, c_args, applied>>
    /\ UNCHANGED <<launcherVars, findVars, configVars, bootstrapVars, fetchVars>>

ExecNext == ExecCExe \/ ExecCArgs \/ ExecSetVar \/ ExecExecv

ExecSpec == ExecInit /\ [][ExecNext]_vars

-----------------------------------------------------------------------------
(* fetch_a_scie_project (src/package/src/utils/build.rs): the builds that run *)
(* it at the same time are processes of their own sharing the cache           *)
(* directory.  A directory is given by whether it exists and by what it holds *)
(* of the binary and of its .sha256 file.                                     *)

Builds == {1, 2}

Dir(binary, sha256) == [exists |-> TRUE, binary |-> binary, sha256 |-> sha256]

NoDir == [exists |-> FALSE, binary |-> "none", sha256 |-> "none"]

EmptyDir == Dir("none", "none")

\* The binary as released, with the .sha256 file released with it.
ReleaseDir == Dir("release", "release")

IsEmptyDir(dir) == dir.exists /\ dir.binary = "none" /\ dir.sha256 = "none"

\* check_sha256(path): read_to_string(<path>.sha256), fingerprint(path), and
\* assert_eq! of the two hashes.
CheckSha256(dir) ==
    IF ~dir.exists \/ dir.sha256 = "none" THEN "err"
    ELSE IF dir.binary = "none" THEN "err"
    ELSE IF dir.binary = "release" /\ dir.sha256 = "release" THEN "ok"
    ELSE "panic"

\* std::fs::rename(src, dst) of directories: dst may be absent or an empty
\* directory, which src replaces.
Rename(src, dst) ==
    IF ~src.exists THEN [ok |-> FALSE, src |-> src, dst |-> dst]
    ELSE IF dst.exists /\ ~IsEmptyDir(dst) THEN [ok |-> FALSE, src |-> src, dst |-> dst]
    ELSE [ok |-> TRUE, src |-> NoDir, dst |-> src]

Build(at, holds, status, via) == [pc |-> at, holds |-> holds, status |-> status, via |-> via]

\* What <cache>/<tag> and <cache>/<tag>.work hold when the builds start: what
\* earlier runs of the same function left there.
TargetDirs == {NoDir, ReleaseDir}
WorkDirs == {NoDir, Dir("corrupt", "none"), ReleaseDir}

FetchInit ==
    /\ LauncherIdle
    /\ FindIdle
    /\ ConfigIdle
    /\ BootstrapIdle
    /\ ExecIdle
    /\ target_dir \in TargetDirs
    /\ work_dir \in WorkDirs
    /\ lock_owner = None
    /\ build = [b \in Builds |-> Build("create", FALSE, "pending", "none")]

FetchFrame == UNCHANGED <<launcherVars, findVars, configVars, bootstrapVars, execVars>>

\* A return or a panic drops the guard and closes the file, which gives the
\* lock up if this build holds it.
Return(b, status, via) ==
    /\ build' = [build EXCEPT ![b] = Build("done", FALSE, status, via)]
    /\ lock_owner' = IF build[b].holds THEN None ELSE lock_owner

Goto(b, at) == build' = [build EXCEPT ![b].pc = at]

\* ensure_directory(&cache_dir, false)?; File::create(&lock_file).map_err(..)?
FetchCreate(b) ==
    /\ build[b].pc = "create"
    /\ \/ Goto(b, "write") /\ UNCHANGED lock_owner
       \/ Return(b, "err", "none")
    /\ UNCHANGED <<target_dir, work_dir>>
    /\ FetchFrame

\* let _write_lock = lock.write(): the call waits until no other file
\* description holds the lock and gives io::Result<RwLockWriteGuard>; the
\* Result is bound as it is, so an Err is kept and the function goes on.
FetchWrite(b) ==
    /\ build[b].pc = "write"
    /\ \/ /\ lock_owner = None
          /\ lock_owner' = Some(b)
          /\ build' = [build EXCEPT ![b].pc = "exists", ![b].holds = TRUE]
       \/ /\ Goto(b, "exists")
          /\ UNCHANGED lock_owner
    /\ UNCHANGED <<target_dir, work_dir>>
    /\ FetchFrame

\* if !target_dir.exists() { .. } else { build_step!("Loading ..") }
FetchExists(b) ==
    /\ build[b].pc = "exists"
    /\ Goto(b, IF ~target_dir.exists THEN "ptex" ELSE "load")
    /\ UNCHANGED <<target_dir, work_dir, lock_owner>>
    /\ FetchFrame

\* BOOTSTRAP_PTEX.get_or_try_init(|| { execute(cargo install ..)?; .. })?
FetchPtex(b) ==
    /\ build[b].pc = "ptex"
    /\ \/ Goto(b, "remove") /\ UNCHANGED lock_owner
       \/ Return(b, "err", "none")
    /\ UNCHANGED <<target_dir, work_dir>>
    /\ FetchFrame

\* ensure_directory(&work_dir, true), first half: remove_dir(path), whose
\* failure is logged and nothing more.
FetchRemove(b) ==
    /\ build[b].pc = "remove"
    /\ Goto(b, "mkdir")
    /\ work_dir' \in {NoDir, work_dir}
    /\ UNCHANGED <<target_dir, lock_owner>>
    /\ FetchFrame

\* ensure_directory(&work_dir, true), second half: create_dir_all(path)
FetchMkdir(b) ==
    /\ build[b].pc = "mkdir"
    /\ \/ /\ Goto(b, "fetch")
          /\ work_dir' = IF work_dir.exists THEN work_dir ELSE EmptyDir
          /\ UNCHANGED lock_owner
       \/ /\ Return(b, "err", "none")
          /\ UNCHANGED work_dir
    /\ UNCHANGED target_dir
    /\ FetchFrame

\* execute(Command::new(ptex).args(["-O", url]).current_dir(dest_dir))?
FetchBinary(b) ==
    /\ build[b].pc = "fetch"
    /\ \/ /\ work_dir.exists
          /\ \E got \in {"release", "corrupt"} : work_dir' = [work_dir EXCEPT !.binary = got]
          /\ Goto(b, "fetch_sha")
          /\ UNCHANGED lock_owner
       \/ /\ Return(b, "err", "none")
          /\ UNCHANGED work_dir
    /\ UNCHANGED target_dir
    /\ FetchFrame

\* execute(Command::new(ptex).args(["-O", &sha256_url]).current_dir(dest_dir))?
FetchSha256(b) ==
    /\ build[b].pc = "fetch_sha"
    /\ \/ /\ work_dir.exists
          /\ work_dir' = [work_dir EXCEPT !.sha256 = "release"]
          /\ Goto(b, "check")
          /\ UNCHANGED lock_owner
       \/ /\ Return(b, "err", "none")
          /\ UNCHANGED work_dir
    /\ UNCHANGED target_dir
    /\ FetchFrame

\* crate::check_sha256(&dest_dir.join(file_name))
FetchCheck(b) ==
    /\ build[b].pc = "check"
    /\ IF CheckSha256(work_dir) = "ok" THEN Goto(b, "rename") /\ UNCHANGED lock_owner
       ELSE Return(b, CheckSha256(work_dir), "none")
    /\ UNCHANGED <<target_dir, work_dir>>
    /\ FetchFrame

\* rename(&work_dir, &target_dir)?
FetchRename(b) ==
    /\ build[b].pc = "rename"
    /\ work_dir' = Rename(work_dir, target_dir).src
    /\ target_dir' = Rename(work_dir, target_dir).dst
    /\ IF Rename(work_dir, target_dir).ok
       THEN build' = [build EXCEPT ![b].pc = "copy", ![b].via = "fetched"] /\ UNCHANGED lock_owner
       ELSE Return(b, "err", "none")
    /\ FetchFrame

\* The else branch: "Loading the .. binary from the cache".
FetchLoad(b) ==
    /\ build[b].pc = "load"
    /\ build' = [build EXCEPT ![b].pc = "copy", ![b].via = "cache"]
    /\ UNCHANGED <<target_dir, work_dir, lock_owner>>
    /\ FetchFrame

\* copy(&target_dir.join(&file_name), &dest_dir.join(file_name))
FetchCopy(b) ==
    /\ build[b].pc = "copy"
    /\ Return(b, IF target_dir.exists /\ target_dir.binary # "none" THEN "ok" ELSE "err",
              build[b].via)
    /\ UNCHANGED <<target_dir, work_dir>>
    /\ FetchFrame

FetchNext ==
    \E b \in Builds :
        \/ FetchCreate(b)
        \/ FetchWrite(b)
        \/ FetchExists(b)
        \/ FetchPtex(b)
        \/ FetchRemove(b)
        \/ FetchMkdir(b)
        \/ FetchBinary(b)
        \/ FetchSha256(b)
        \/ FetchCheck(b)
        \/ FetchRename(b)
        \/ FetchLoad(b)
        \/ FetchCopy(b)

FetchSpec == FetchInit /\ [][FetchNext]_vars

-----------------------------------------------------------------------------
(* What the properties below read off a state *)

\* main has its Result<Process>, or has printed the version report.
MainReturned == pc = "done"

\* main called get_pants_process.
NormalBuilder == pc \notin {"main", "sources", "exited"} /\ pants_repo_location = None
                 /\ result.status # "reported"

\* get_pants_process has returned.
Returned == pc = "done" /\ NormalBuilder
ReturnedOk == Returned /\ result.status = "ok"

\* The statement that computes pants_version has run.
VersionResolved == pc \in {"delegate", "scie", "scie_boot", "into_process"}
                   \/ (Returned /\ result.error \notin {"ConfigReadError", "ConfigParseError",
                                                          "NonUtf8EnvironmentValue"})

\* An environment variable that is set to a non-empty value.
SetNonEmpty(name) == environ[name] # None /\ environ[name] # Some(EmptyString)

\* The version pants.toml pins, read off the disk.
ConfiguredOnDisk == IF fs.found_root # None /\ fs.pants_toml = "ok" THEN fs.config.pants_version
                    ELSE None

\* The configuration asks for delegation, read off the disk.
DelegateOnDisk == fs.found_root # None /\ fs.pants_toml = "ok" /\ fs.config.delegate_bootstrap

OverlayNames(overlay) == {overlay[i][1] : i \in 1..Len(overlay)}
OverlayValues(overlay, name) == {overlay[i][2] : i \in {j \in 1..Len(overlay) : overlay[j][1] = name}}
OverlayCount(overlay, name) == Cardinality({j \in 1..Len(overlay) : overlay[j][1] = name})

\* The version the inputs call for, and whether they call for delegation.
NoVersionOnInputs == ~SetNonEmpty("PANTS_VERSION") /\ ConfiguredOnDisk = None
DelegatedOnInputs == DelegateOnDisk /\ NoVersionOnInputs

\* The descriptor in result is the managed-runtime one, not the delegated one.
ManagedDescriptor == ReturnedOk /\ ~DelegatedOnInputs

\* The boot mode the environment calls for, by the value SCIE_BOOT gives it.
ExpectedMode ==
    IF environ["PANTS_BOOTSTRAP_TOOLS"] # None THEN "bootstrap-tools"
    ELSE IF SetNonEmpty("PANTS_DEBUG") THEN "pants-debug"
    ELSE "pants"

\* What bash makes of one quoted word: the text it stands for, or <<"<split>">>
\* when bash would not read it as one word.
ShellUnescape(c) ==
    IF c = "\\'" THEN "'"
    ELSE IF c = "\\xFF" THEN NonUtf8Chunk
    ELSE c

ShellWord(word) ==
    IF word = <<"''">> THEN EmptyString
    ELSE IF Len(word) >= 2 /\ word[1] = "$'" /\ word[Len(word)] = "'" THEN
        [i \in 1..(Len(word) - 2) |-> ShellUnescape(word[i + 1])]
    ELSE IF \A i \in 1..Len(word) : word[i] \notin {" ", "'", NonUtf8Chunk, "$'"} THEN word
    ELSE <<"<split>">>

-----------------------------------------------------------------------------
(* Properties *)

\* C1: version precedence.  Once get_pants_process has resolved the version, it
\* is the PANTS_VERSION override when that is set and non-empty, and the
\* configured version (possibly none) otherwise; the PANTS_VERSION entry of a
\* managed descriptor carries exactly that version.
C1_VersionPrecedence ==
    VersionResolved =>
        /\ SetNonEmpty("PANTS_VERSION") => pants_version = environ["PANTS_VERSION"]
        /\ ~SetNonEmpty("PANTS_VERSION") => pants_version = ConfiguredOnDisk
        /\ (ManagedDescriptor /\ pants_version # None) =>
                OverlayValues(result.env, "PANTS_VERSION") = {Unwrap(pants_version)}

\* C1 witness: a run with both an override and a pinned version has returned
\* a managed descriptor.
C1_Witness ==
    /\ ManagedDescriptor
    /\ environ["PANTS_VERSION"] = Some(Str("2.0.0"))
    /\ ConfiguredOnDisk = Some(Str("1.2.3"))

\* The steps before version resolution succeeded and the override can be decoded.
ReachesVersionResolution ==
    /\ ~(fs.found_root # None /\ fs.pants_toml # "ok")
    /\ (environ["PANTS_VERSION"] # None => IsUtf8(Unwrap(environ["PANTS_VERSION"])))

\* C2: with PANTS_VERSION and PANTS_SHA both set to non-empty values, version
\* resolution fails with ConflictingVersionSelectors and get_pants_process
\* returns no descriptor.
C2_ConflictingSelectorsFail ==
    (Returned /\ ReachesVersionResolution
        /\ SetNonEmpty("PANTS_VERSION") /\ SetNonEmpty("PANTS_SHA")) =>
        (result.status = "err" /\ result.error = "ConflictingVersionSelectors")

\* C3: PANTS_VERSION set to the empty string is PANTS_VERSION unset.  The
\* result of a run with PANTS_VERSION="" is the result get_pants_process gives
\* in the same environment with PANTS_VERSION removed (for the uuid the run
\* drew); the configured version is the resolved one and no overlay entry
\* carries the empty string as a version.
C3_EmptyOverrideIsUnset ==
    (Returned /\ environ["PANTS_VERSION"] = Some(EmptyString)) =>
        /\ \E uuid \in Uuids :
              /\ (issued # <<>> /\ "PANTS_VERSION_PROMPT_SALT" \in OverlayNames(result.env))
                    => uuid = issued[Len(issued)]
              /\ result = GetPantsProcess([environ EXCEPT !["PANTS_VERSION"] = None], fs, uuid)
        /\ VersionResolved => pants_version = ConfiguredOnDisk
        /\ EmptyString \notin OverlayValues(result.env, "PANTS_VERSION")
        /\ EmptyString \notin OverlayValues(result.env, "_PANTS_VERSION_OVERRIDE")

\* C3 witness: a run with PANTS_VERSION="" over a pinned version has returned a
\* managed descriptor, and another one with no pinned version has too.
C3_Witness ==
    /\ ManagedDescriptor
    /\ environ["PANTS_VERSION"] = Some(EmptyString)
    /\ ConfiguredOnDisk = Some(Str("1.2.3"))
    /\ OverlayValues(result.env, "PANTS_VERSION") = {Str("1.2.3")}

\* C4: with only PANTS_SHA set (non-empty) and no PANTS_VERSION override, the
\* resolved version is none, whatever version the configuration pins.
C4_RevisionOverrideDropsConfigured ==
    (VersionResolved /\ SetNonEmpty("PANTS_SHA") /\ ~SetNonEmpty("PANTS_VERSION")) =>
        pants_version = None

\* C5: boot mode selection.  PANTS_BOOTSTRAP_TOOLS present (with any value, the
\* empty one included) selects BootstrapTools whatever PANTS_DEBUG is; otherwise
\* a non-empty PANTS_DEBUG selects PantsDebug; otherwise Pants.  Every managed
\* descriptor has exactly one SCIE_BOOT entry and it names the selected mode.
C5_BootModeSelection ==
    /\ (pc = "into_process" \/ ManagedDescriptor) =>
        /\ environ["PANTS_BOOTSTRAP_TOOLS"] # None => scie_boot = "BootstrapTools"
        /\ (environ["PANTS_BOOTSTRAP_TOOLS"] = None /\ SetNonEmpty("PANTS_DEBUG"))
                => scie_boot = "PantsDebug"
        /\ (environ["PANTS_BOOTSTRAP_TOOLS"] = None /\ ~SetNonEmpty("PANTS_DEBUG"))
                => scie_boot = "Pants"
    /\ ManagedDescriptor =>
        /\ OverlayCount(result.env, "SCIE_BOOT") = 1
        /\ OverlayValues(result.env, "SCIE_BOOT") = {Str(ExpectedMode)}

\* C5 witness: both flags are set, the tools flag to the empty string, and a
\* managed descriptor was returned.
C5_Witness ==
    /\ ManagedDescriptor
    /\ environ["PANTS_BOOTSTRAP_TOOLS"] = Some(EmptyString)
    /\ environ["PANTS_DEBUG"] = Some(Str("1"))
    /\ OverlayValues(result.env, "SCIE_BOOT") = {Str("bootstrap-tools")}

\* C6: delegate short-circuit.  With delegate_bootstrap = true and no version
\* (no override, none configured) the result is the descriptor that runs
\* <root>/pants with no arguments and an empty overlay.
C6_DelegateShortCircuit ==
    (Returned /\ DelegateOnDisk /\ NoVersionOnInputs) =>
        result = [status |-> "ok", error |-> "",
                  exe |-> Unwrap(fs.found_root) \o <<"/", "pants">>,
                  args |-> <<>>, env |-> <<>>]

\* C6 witness: the short-circuit was taken, here with SCIE unset and a
\* bootstrap script present.
C6_Witness ==
    /\ ReturnedOk
    /\ DelegatedOnInputs
    /\ environ["SCIE"] = None
    /\ fs.bootstrap_is_file
    /\ result.exe = <<"/my", " ", "repo", "/", "pants">>

\* C7: with delegate_bootstrap = true and a resolved version the builder does
\* not delegate: the managed descriptor is produced (given the runtime
\* location), and its overlay has PANTS_VERSION and _PANTS_VERSION_OVERRIDE,
\* both the resolved version.  With delegate_bootstrap false no descriptor has
\* _PANTS_VERSION_OVERRIDE.
C7_DelegateWithVersion ==
    /\ (Returned /\ DelegateOnDisk /\ VersionResolved /\ pants_version # None) =>
        /\ result.status = "ok" <=> environ["SCIE"] # None
        /\ result.status = "ok" =>
            /\ result.exe # Unwrap(fs.found_root) \o <<"/", "pants">>
            /\ OverlayCount(result.env, "SCIE_BOOT") = 1
            /\ OverlayCount(result.env, "PANTS_VERSION") = 1
            /\ OverlayCount(result.env, "_PANTS_VERSION_OVERRIDE") = 1
            /\ OverlayValues(result.env, "PANTS_VERSION") = {Unwrap(pants_version)}
            /\ OverlayValues(result.env, "_PANTS_VERSION_OVERRIDE") = {Unwrap(pants_version)}
    /\ (ReturnedOk /\ ~DelegateOnDisk) =>
            "_PANTS_VERSION_OVERRIDE" \notin OverlayNames(result.env)

\* C7 witness: delegate_bootstrap = true, the version comes from the override,
\* and the descriptor carries it twice.
C7_Witness ==
    /\ ReturnedOk
    /\ DelegateOnDisk
    /\ ConfiguredOnDisk = None
    /\ environ["PANTS_VERSION"] = Some(Str("2.0.0"))
    /\ OverlayValues(result.env, "_PANTS_VERSION_OVERRIDE") = {Str("2.0.0")}

\* C8: shell wrapping.  With a bootstrap script at the root and boot mode
\* Pants, the descriptor runs /usr/bin/env bash -c <command>, the command
\* sourcing the quoted bootstrap path and then exec-ing the quoted runtime path
\* with "$0" "$@", each quoted path being one shell word that stands for the
\* path.  With boot mode BootstrapTools, or no root, or no bootstrap script, the
\* descriptor runs the runtime itself with no arguments.
C8_ShellWrapping ==
    ManagedDescriptor =>
        /\ (fs.found_root # None /\ fs.bootstrap_is_file /\ ExpectedMode = "pants") =>
            LET bootstrap == Unwrap(fs.found_root) \o <<"/", ".pants.bootstrap">>
                runtime == Unwrap(environ["SCIE"])
            IN  /\ result.exe = <<"/usr/bin/env">>
                /\ Len(result.args) = 3
                /\ result.args[1] = <<"bash">>
                /\ result.args[2] = <<"-c">>
                /\ result.args[3] = <<"set -eou pipefail; source ">> \o Quote(bootstrap)
                                     \o <<"; exec ">> \o Quote(runtime)
                                     \o <<" \"$0\" \"$@\"">>
                /\ ShellWord(Quote(bootstrap)) = bootstrap
                /\ ShellWord(Quote(runtime)) = runtime
        /\ (fs.found_root = None \/ ~fs.bootstrap_is_file
                \/ ExpectedMode = "bootstrap-tools") =>
            /\ result.exe = Unwrap(environ["SCIE"])
            /\ result.args = <<>>

\* C8 witness: a wrapped descriptor whose two paths both need quoting.
C8_Witness ==
    /\ ManagedDescriptor
    /\ ExpectedMode = "pants"
    /\ result.exe = <<"/usr/bin/env">>
    /\ result.args[3] = <<"set -eou pipefail; source ",
                           "$'", "/my", " ", "repo", "/", ".pants.bootstrap", "'",
                           "; exec ",
                           "$'", "/o", "\\'", "pt/scie-pants", "'",
                           " \"$0\" \"$@\"">>

\* C8 second witness state: the script is there but the mode is BootstrapTools,
\* and the descriptor is the bare runtime.
C8_WitnessTools ==
    /\ ManagedDescriptor
    /\ fs.bootstrap_is_file
    /\ ExpectedMode = "bootstrap-tools"
    /\ result.args = <<>>

C10_VersionOrFreshSalt ==
    /\ ManagedDescriptor =>
        /\ OverlayCount(result.env, "PANTS_VERSION")
                + OverlayCount(result.env, "PANTS_VERSION_PROMPT_SALT") = 1
        /\ pants_version # None =>
                OverlayValues(result.env, "PANTS_VERSION") = {Unwrap(pants_version)}
        /\ pants_version = None =>
            /\ issued # <<>>
            /\ OverlayValues(result.env, "PANTS_VERSION_PROMPT_SALT")
                    = {<<ToString(issued[Len(issued)])>>}
    /\ \A i, j \in 1..Len(issued) : i # j => issued[i] # issued[j]
    /\ Len(issued) <= invocation

\* C10 witness: the second invocation in a row that resolved no version has
\* returned its descriptor.
C10_Witness ==
    /\ ManagedDescriptor
    /\ invocation = 2
    /\ Len(issued) = 2
    /\ "PANTS_VERSION_PROMPT_SALT" \in OverlayNames(result.env)

\* What the walk of BuildRoot::find should come to, read off the tree: the
\* directories holding one of the three names as a regular file.
RootDirs == {i \in 1..Len(tree) :
                \/ tree[i]["pants.toml"] = "file"
                \/ tree[i]["BUILDROOT"] = "file"
                \/ tree[i]["BUILD_ROOT"] = "file"}

FindReturned == find_result.status \in {"ok", "err"}

\* C11: the PANTS_BIN_NAME entry of the managed descriptor's overlay, of which
\* there is exactly one, is the PANTS_BIN_NAME variable when that is set, else
\* SCIE_ARGV0 when that is set, else the runtime path read from SCIE.
C11_BinNamePrecedence ==
    ManagedDescriptor =>
        /\ OverlayCount(result.env, "PANTS_BIN_NAME") = 1
        /\ environ["PANTS_BIN_NAME"] # None =>
                OverlayValues(result.env, "PANTS_BIN_NAME") = {Unwrap(environ["PANTS_BIN_NAME"])}
        /\ (environ["PANTS_BIN_NAME"] = None /\ environ["SCIE_ARGV0"] # None) =>
                OverlayValues(result.env, "PANTS_BIN_NAME") = {Unwrap(environ["SCIE_ARGV0"])}
        /\ (environ["PANTS_BIN_NAME"] = None /\ environ["SCIE_ARGV0"] = None) =>
                OverlayValues(result.env, "PANTS_BIN_NAME") = {Unwrap(environ["SCIE"])}

C11_Witness ==
    /\ ManagedDescriptor
    /\ environ["PANTS_BIN_NAME"] = Some(Str("./pants"))
    /\ environ["SCIE_ARGV0"] # None
    /\ OverlayValues(result.env, "PANTS_BIN_NAME") = {Str("./pants")}

\* C12: when a project root is found, the managed descriptor's overlay holds
\* both PANTS_BUILDROOT_OVERRIDE = <root> and PANTS_TOML = <root>/pants.toml,
\* whether or not pants.toml pins a version; when none is found it holds
\* neither.
C12_RootVariablesAlways ==
    ManagedDescriptor =>
        /\ fs.found_root # None =>
            /\ OverlayValues(result.env, "PANTS_BUILDROOT_OVERRIDE") = {Unwrap(fs.found_root)}
            /\ OverlayValues(result.env, "PANTS_TOML")
                    = {Join(Unwrap(fs.found_root), "pants.toml")}
        /\ fs.found_root = None =>
            /\ "PANTS_BUILDROOT_OVERRIDE" \notin OverlayNames(result.env)
            /\ "PANTS_TOML" \notin OverlayNames(result.env)

\* C13: a root whose pants.toml pins a version V, no .pants.bootstrap, SCIE set,
\* no PANTS_VERSION or PANTS_SHA override and neither mode flag: get_pants_process
\* returns a descriptor that executes the runtime path with no arguments, whose
\* overlay has PANTS_VERSION = V and no PANTS_VERSION_PROMPT_SALT.
PinnedPlainInputs ==
    /\ fs.found_root # None /\ fs.pants_toml = "ok" /\ fs.config.pants_version # None
    /\ ~fs.bootstrap_is_file
    /\ environ["SCIE"] # None /\ IsUtf8(Unwrap(environ["SCIE"]))
    /\ environ["PANTS_VERSION"] = None /\ environ["PANTS_SHA"] = None
    /\ environ["PANTS_DEBUG"] = None /\ environ["PANTS_BOOTSTRAP_TOOLS"] = None

C13_PinnedVersionEndToEnd ==
    (Returned /\ PinnedPlainInputs) =>
        /\ result.status = "ok"
        /\ result.exe = Unwrap(environ["SCIE"])
        /\ result.args = <<>>
        /\ OverlayValues(result.env, "PANTS_VERSION") = {Unwrap(fs.config.pants_version)}
        /\ OverlayCount(result.env, "PANTS_VERSION") = 1
        /\ "PANTS_VERSION_PROMPT_SALT" \notin OverlayNames(result.env)

C13_Witness ==
    /\ Returned /\ PinnedPlainInputs
    /\ fs.config.delegate_bootstrap
    /\ result.status = "ok"
    /\ result.exe = Str("/opt/scie-pants")
    /\ OverlayValues(result.env, "PANTS_VERSION") = {Str("1.2.3")}

C15_MissingSectionsDefault ==
    (parsed.status \in {"ok", "err"}
        /\ toml.read = "ok" /\ toml.syntax = "ok"
        /\ toml.setup = "absent"
        /\ (toml.GLOBAL = "absent" \/ (toml.GLOBAL = "table" /\ toml.pants_version = "absent")))
    => (parsed.status = "ok" /\ parsed.pants_version = None)

\* C16: find_pants_installation gives no installation only when no project
\* root is found, and get_pants_process then goes on with no root, no
\* configured version, no debugpy version and delegate_bootstrap false; with a
\* root whose pants.toml cannot be read or parsed, get_pants_process fails with
\* ConfigReadError or ConfigParseError and produces no descriptor; with a root
\* whose pants.toml loads, it goes on with that root and that configuration.
PastProbe == NormalBuilder /\ pc # "find_pants_installation"

LoadedDiff == loaded.status = "ok" /\ loaded.bootstrap # None

Pairs(dump) == {Unwrap(SplitN2(dump[i])) : i \in {j \in 1..Len(dump) : SplitN2(dump[j]) # None}}
DiffPairs == {Unwrap(loaded.bootstrap)[i] : i \in 1..Len(Unwrap(loaded.bootstrap))}
BeforeValues(name) == {p[2] : p \in {q \in Pairs(subprocess.stderr) : q[1] = name}}
NoiseNames == {<<"BASH_ARGC">>, <<"PIPESTATUS">>, <<"_">>}

LastBefore(name) ==
    LET binds == {i \in 1..Len(subprocess.stderr) :
                    /\ SplitN2(subprocess.stderr[i]) # None
                    /\ Unwrap(SplitN2(subprocess.stderr[i]))[1] = name}
    IN IF binds = {} THEN None
       ELSE Some(Unwrap(SplitN2(subprocess.stderr[CHOOSE i \in binds :
                                                    \A j \in binds : j <= i]))[2])

C18_ScriptFailure ==
    [][(boot_pc = "load" /\ subprocess.is_file /\ subprocess.tempfile_ok
            /\ subprocess.spawn_ok /\ ~subprocess.success)
       => /\ loaded' = LoadResult("err", "BootstrapScriptFailure", subprocess.capture, None)
          /\ process_env' = process_env
          /\ boot_pc' = "done"]_vars

\* C18, for either outcome of reading the capture file: text, which the
\* BootstrapScriptFailure carries, or bytes that are not UTF-8, for which load
\* fails with the read error instead.
C18_ScriptFailureOrCaptureUnread ==
    [][(boot_pc = "load" /\ subprocess.is_file /\ subprocess.tempfile_ok
            /\ subprocess.spawn_ok /\ ~subprocess.success)
       => /\ IsUtf8(subprocess.capture) =>
                loaded' = LoadResult("err", "BootstrapScriptFailure", subprocess.capture, None)
          /\ ~IsUtf8(subprocess.capture) =>
                loaded' = LoadResult("err", "CaptureReadError", <<>>, None)
          /\ process_env' = process_env
          /\ boot_pc' = "done"]_vars

C18_Witness ==
    /\ boot_pc = "done"
    /\ ~subprocess.success
    /\ subprocess.stderr # <<>>
    /\ process_env # {}
    /\ loaded = LoadResult("err", "BootstrapScriptFailure", Str("boom"), None)

\* C19: when the root's .pants.bootstrap exports a PANTS_VERSION, that value is
\* in the environment by the time get_pants_process resolves the version: it is
\* the resolved version, and the PANTS_VERSION entry of the managed descriptor's
\* overlay.
ScriptExportsVersion == fs.found_root # None /\ fs.bootstrap_is_file
                        /\ fs.bootstrap_exports # None

C19_BootstrapBeforeResolution ==
    (VersionResolved /\ ScriptExportsVersion) =>
        /\ pants_version = fs.bootstrap_exports
        /\ ReturnedOk =>
                OverlayValues(result.env, "PANTS_VERSION") = {Unwrap(fs.bootstrap_exports)}

\* C20: unless main only reports its version, it builds the sources-mode
\* descriptor for the checkout PANTS_SOURCE names whenever PANTS_SOURCE is set;
\* with PANTS_SOURCE unset and SCIE_ARGV0 ending in the name pants_from_sources
\* it builds it for ../pants; in every other case it runs get_pants_process.  A
\* sources-mode descriptor executes <checkout>/pants with the one argument
\* --no-verify-config.
MainDispatched == pc \notin {"main", "exited"}
                  /\ environ["PANTS_BOOTSTRAP_VERSION"] # Some(Str("report"))

InvokedAsAlias == environ["SCIE_ARGV0"] # None
                  /\ FileName(Unwrap(environ["SCIE_ARGV0"])) = Some("pants_from_sources")

Usable(name) == environ[name] # None /\ IsUtf8(Unwrap(environ[name]))

SourcesReturned == pc = "done" /\ pants_repo_location # None

C21_SourcesRunnerNotFound ==
    (SourcesReturned /\ ~checkout.runner_is_file) => result = Err("SourcesRunnerNotFound")

\* C23: every error is terminal.  While main runs nothing has been executed;
\* when the builder has returned an error, main ends without calling exec, with
\* that error and a non-zero exit status; exec is called only on an Ok
\* descriptor, and at most once in an invocation.
C23_ErrorsTerminal ==
    /\ [](pc \notin {"exited", "idle"} => outcome = NoOutcome)
    /\ [](outcome.execs <= 1)
    /\ [][pc = "done" =>
            /\ result.status = "err" =>
                /\ outcome'.execs = 0
                /\ outcome'.exit_status \notin {"0", "replaced", "running"}
                /\ outcome'.error = result.error
            /\ outcome'.execs = 1 => result.status = "ok"
            /\ outcome'.exit_status = "replaced" => outcome'.execs = 1]_vars

C23_Witness ==
    /\ pc = "exited"
    /\ outcome = Outcome("1", "RuntimeLocationMissing", 0)

\* C24: the PANTS_PANTSD entry of a sources-mode descriptor, of which there is
\* exactly one, is the value of ENABLE_PANTSD when that is set, else the value
\* of PANTS_PANTSD when that is set, else "false".
SourcesDescriptor == pc = "done" /\ pants_repo_location # None /\ result.status = "ok"

C24_PantsdPrecedence ==
    SourcesDescriptor =>
        /\ OverlayCount(result.env, "PANTS_PANTSD") = 1
        /\ environ["ENABLE_PANTSD"] # None =>
                OverlayValues(result.env, "PANTS_PANTSD") = {Unwrap(environ["ENABLE_PANTSD"])}
        /\ (environ["ENABLE_PANTSD"] = None /\ environ["PANTS_PANTSD"] # None) =>
                OverlayValues(result.env, "PANTS_PANTSD") = {Unwrap(environ["PANTS_PANTSD"])}
        /\ (environ["ENABLE_PANTSD"] = None /\ environ["PANTS_PANTSD"] = None) =>
                OverlayValues(result.env, "PANTS_PANTSD") = {Str("false")}

C24_Witness ==
    /\ SourcesDescriptor
    /\ environ["ENABLE_PANTSD"] = Some(Str("true"))
    /\ environ["PANTS_PANTSD"] = Some(Str("True"))
    /\ OverlayValues(result.env, "PANTS_PANTSD") = {Str("true")}

\* C25: the entries load returns are in the order of the lines of the after
\* dump they come from: the k-th entry is the k-th of the lines that are kept.
KeptLines ==
    {i \in 1..Len(subprocess.stdout) :
        /\ SplitN2(subprocess.stdout[i]) # None
        /\ Unwrap(SplitN2(subprocess.stdout[i]))[1] \notin NoiseNames
        /\ LastBefore(Unwrap(SplitN2(subprocess.stdout[i]))[1])
                # Some(Unwrap(SplitN2(subprocess.stdout[i]))[2])}

KthKept(k) == CHOOSE i \in KeptLines : Cardinality({j \in KeptLines : j <= i}) = k

C25_DiffOrder ==
    LoadedDiff =>
        /\ Len(Unwrap(loaded.bootstrap)) = Cardinality(KeptLines)
        /\ \A k \in 1..Len(Unwrap(loaded.bootstrap)) :
                Unwrap(loaded.bootstrap)[k] = Unwrap(SplitN2(subprocess.stdout[KthKept(k)]))

C25_Witness ==
    /\ LoadedDiff
    /\ subprocess.stdout = <<Line("FOO", Str("b")), Line("BAR", Str("a"))>>
    /\ loaded.bootstrap = Some(<< <<Str("FOO"), Str("b")>>, <<Str("BAR"), Str("a")>> >>)

\* C26: export_env makes every (name, value) entry of the diff the binding of
\* name in the environment of the process, and changes no variable whose name
\* is not in the diff.
DiffNames == {p[1] : p \in DiffPairs}

FirstPanic ==
    LET bad == {i \in 1..Len(Unwrap(loaded.bootstrap)) :
                    Unwrap(loaded.bootstrap)[i][1] = EmptyString}
    IN IF bad = {} THEN Len(Unwrap(loaded.bootstrap)) + 1
       ELSE CHOOSE i \in bad : \A j \in bad : i <= j

Applied == SubSeq(Unwrap(loaded.bootstrap), 1, FirstPanic - 1)

LastApplied(name) ==
    Applied[CHOOSE i \in 1..Len(Applied) :
                /\ Applied[i][1] = name
                /\ \A j \in 1..Len(Applied) : Applied[j][1] = name => j <= i][2]

AppliedNames == {Applied[i][1] : i \in 1..Len(Applied)}

C22_ArgvAndOverlay ==
    /\ [](exec_result = "replaced" =>
            /\ c_exe = Some(exec_process.exe)
            /\ c_args = <<exec_process.exe>> \o exec_process.args
                            \o SubSeq(cli_args, 2, Len(cli_args))
            /\ applied = Len(exec_process.env))
    /\ [][exec_env' # exec_env \/ applied' # applied =>
            /\ applied' = applied + 1
            /\ exec_env' = {q \in exec_env : q[1] # exec_process.env[applied'][1]}
                                \cup {exec_process.env[applied']}]_vars

C22_Witness ==
    /\ exec_result = "replaced"
    /\ exec_process.args = <<Str("-x"), Str("-x")>>
    /\ cli_args = <<Str("scie-pants"), Str("-V"), Str("-V")>>
    /\ exec_process.env = << <<Str("A"), Str("b")>>, <<Str("A"), Str("a")>> >>
    /\ exec_env = {<<Str("A"), Str("a")>>}

\* C29: when the executable or an argument holds a NUL byte, exec returns an
\* error and the environment of the process is never changed.
NulInputs ==
    \/ HasNul(exec_process.exe)
    \/ \E i \in 1..Len(exec_process.args) : HasNul(exec_process.args[i])
    \/ \E i \in 2..Len(cli_args) : HasNul(cli_args[i])

C29_NulBeforeEnvironment ==
    /\ [](NulInputs /\ exec_pc = "done" =>
            /\ exec_result \in {"Failed to convert executable to a C string.",
                                 "Failed to convert argument to a C string."}
            /\ applied = 0)
    /\ [][NulInputs => exec_env' = exec_env]_vars

C29_Witness ==
    /\ exec_pc = "done"
    /\ exec_result = "Failed to convert argument to a C string."
    /\ exec_process.args = <<Str("-x"), <<"-", NulChunk>> >>
    /\ Len(exec_process.env) = 2
    /\ cli_args = <<Str("scie-pants"), <<NonUtf8Chunk>> >>
    /\ exec_env = {<<Str("A"), Str("c")>>}

\* C30: <cache>/<tag> comes to exist only by the rename of a <tag>.work that
\* passed the sha256 check; a build looks at <tag>, fetches and renames only
\* while it holds the lock on <tag>.lck; and of two builds at most one
\* populates <tag>, the other, when it succeeds, having loaded it from the
\* cache.
InCriticalSection(b) ==
    build[b].pc \in {"exists", "ptex", "remove", "mkdir", "fetch", "fetch_sha", "check",
                     "rename", "load"}

C30_TargetOnlyChecked == target_dir.exists => target_dir = ReleaseDir

C30_UnderLock == \A b \in Builds : InCriticalSection(b) => lock_owner = Some(b)

C30_OnePopulates ==
    \A b, other \in Builds :
        b # other /\ build[b].via = "fetched" /\ build[other].status = "ok"
            => build[other].via = "cache"

C30_FetchUnderLock == C30_TargetOnlyChecked /\ C30_UnderLock /\ C30_OnePopulates

\* C27: delegate_bootstrap is true only with a configuration loaded from a
\* found root; when the delegation branch is about to be taken the build root is
\* present, so the expect on it never fires; and the branch returns before SCIE
\* is read, so it succeeds whether or not SCIE is set.
C27_DelegateNeedsRoot ==
    NormalBuilder =>
        /\ delegate_bootstrap => (build_root # None /\ build_root = fs.found_root)
        /\ (pc = "delegate" /\ delegate_bootstrap /\ pants_version = None) => build_root # None
        /\ result.error # "panic: Failed to locate build root"
        /\ (Returned /\ DelegatedOnInputs) =>
            /\ result = Process(Join(Unwrap(fs.found_root), "pants"), <<>>, <<>>)
            /\ scie = EmptyString
        /\ (Returned /\ result.status = "ok" /\ ~DelegatedOnInputs) => environ["SCIE"] # None

C27_Witness ==
    /\ Returned /\ DelegatedOnInputs
    /\ environ["SCIE"] = None
    /\ result.status = "ok"
    /\ result.exe = <<"/my", " ", "repo", "/", "pants">>

\* C28: wrapping changes the executable and the arguments only.  In every mode
\* but BootstrapTools, Debug included, a bootstrap script at the root gives the
\* /usr/bin/env bash -c descriptor; its overlay is the env vector handed to
\* into_process, entry for entry, which is also the overlay of the descriptor
\* the same inputs give when the script is not there.
LastUuid == IF issued = <<>> THEN 1 ELSE issued[Len(issued)]

Unwrapped == GetPantsProcess(environ, [fs EXCEPT !.bootstrap_is_file = FALSE], LastUuid)

C28_WrappingKeepsOverlay ==
    ManagedDescriptor =>
        /\ result.env = env
        /\ result.env = Unwrapped.env
        /\ Unwrapped.exe = Unwrap(environ["SCIE"]) /\ Unwrapped.args = <<>>
        /\ (fs.bootstrap_is_file /\ ExpectedMode # "bootstrap-tools") =>
            /\ result.exe = Str("/usr/bin/env")
            /\ Len(result.args) = 3
            /\ result.args[1] = Str("bash") /\ result.args[2] = Str("-c")
        /\ (~fs.bootstrap_is_file \/ ExpectedMode = "bootstrap-tools") => result = Unwrapped

C28_Witness ==
    /\ ManagedDescriptor
    /\ fs.bootstrap_is_file
    /\ ExpectedMode = "pants-debug"
    /\ fs.config.debugpy_version # None
    /\ result.exe = Str("/usr/bin/env")
    /\ result.env = env
    /\ Len(result.env) = 7

====
